---------------------------- MODULE Spec2Model ----------------------------
(***************************************************************************)
(* A model of the team task tracker (src/app.py): the task lifecycle       *)
(* engine (visibility, toggle, recurrence), the durable store (atomic file *)
(* writes, relational mirror) and the badge award triggered by a toggle.   *)
(*                                                                         *)
(* Representation of Python values:                                        *)
(*   - a str is a TLA+ string; None and "" are both the falsy "" (every    *)
(*     reader in the code goes through `x or ""`, `.get()` truthiness or   *)
(*     _norm, which do not tell them apart);                               *)
(*   - a datetime.date is a record [year, month, day]; NoDate is None;     *)
(*   - a datetime is a record [year, month, day, hour, minute, second];    *)
(*   - an ISO text is a tuple: <<y,m,d>> for "YYYY-MM-DD", <<y,m,d,h,mi>>  *)
(*     for "YYYY-MM-DDTHH:MM", <<>> for an absent/empty value, and any     *)
(*     tuple that is no calendar date for text that does not parse.        *)
(***************************************************************************)
EXTENDS Integers, Sequences, FiniteSets, TLC

VARIABLES
    \* ---- task lifecycle (handlers of src/app.py) ----
    DB_ENABLED,     \* which backend is active (src/app.py:112)
    tasksFile,      \* content of tasks.json: a sequence of task dicts
    taskRows,       \* rows of the tasks table, in (position, id) order
    userBadges,     \* the UserBadge collection
    now,            \* the clock: a datetime
    ticks,          \* how often the clock was advanced
    reqs,           \* how many requests were handled
    last,           \* the last request handled (history)
    \* ---- pure functions under test ----
    pin,            \* the input drawn in Init
    pout,           \* the output computed by the action
    \* ---- the store protocol of one topic (save_json_atomic / load_json) ----
    inodes,         \* inode number -> the chunks written to that inode
    dirent,         \* the inode the topic's path names (0: no such file)
    lockHolder,     \* the process holding the advisory lock (0: none)
    procs,          \* process -> its position and locals
    rows,           \* the topic's relational table: <<>> or <<content>>
    order,          \* the contents made current, in the order they were
    committed,      \* how long `order` was when the last save returned
    nextVersion,    \* the version the next save writes
    LOCKING         \* whether the host has an advisory-lock primitive

lifeVars  == <<DB_ENABLED, tasksFile, taskRows, userBadges, now, ticks, reqs, last>>
pureVars  == <<pin, pout>>
storeVars == <<inodes, dirent, lockHolder, procs, rows, order, committed,
               nextVersion, LOCKING>>
vars == <<lifeVars, pureVars, storeVars>>

(***************************************************************************)
(* Bounds of the model.                                                    *)
(***************************************************************************)
MaxTasks == 2
MaxTicks == 1
MaxRequests == 3
BaseYear == 2023
YearSpan == 1
MaxProcs == 2
MaxVersion == 2

(***************************************************************************)
(* Text helpers.                                                           *)
(***************************************************************************)
\* str.strip().lower() on the texts of the model
StripLower(s) ==
    CASE s = "Nick"      -> "nick"
      [] s = " NICK "    -> "nick"
      [] s = "Liz"       -> "liz"
      [] s = "Steven"    -> "steven"
      [] s = "Zoe"       -> "zoe"
      [] s = "Nicky"     -> "nicky"
      [] s = " "         -> ""
      [] s = "Weekly "   -> "weekly"
      [] s = "MONTHLY"   -> "monthly"
      [] s = "Daily"     -> "daily"
      [] s = "YES"       -> "yes"
      [] s = "True"      -> "true"
      [] s = "None"      -> "none"
      [] s = "No"        -> "no"
      [] s = "False"     -> "false"
      [] s = " Email "   -> "email"
      [] OTHER           -> s

\* str.strip() on the texts of the model
Strip(s) ==
    CASE s = " NICK "    -> "NICK"
      [] s = " "         -> ""
      [] s = "Weekly "   -> "Weekly"
      [] s = " x "       -> "x"
      [] OTHER           -> s

\* str.title() on the usernames of the model
Title(s) ==
    CASE s = "nick"      -> "Nick"
      [] s = "liz"       -> "Liz"
      [] s = "steven"    -> "Steven"
      [] s = "zoe"       -> "Zoe"
      [] s = "nicky"     -> "Nicky"
      [] OTHER           -> s

\* _norm(s) = (s or "").strip().lower()
Norm(s) == StripLower(s)

\* a or b on texts
Or(a, b) == IF a # "" THEN a ELSE b

(***************************************************************************)
(* Recurrence.                                                             *)
(***************************************************************************)
VALID_RECURRENCE == {"daily", "weekly", "monthly"}

\* an unrecognized value kept as it is
normalize_recurring_passthrough(value) ==
    LET text_val == StripLower(value) IN
    IF text_val = "" \/ text_val \in {"none", "no", "false"} THEN ""
    ELSE IF text_val \in {"yes", "true"} THEN "weekly"
    ELSE text_val

\* "" is None
normalize_recurring(value) ==
    LET text_val == StripLower(value) IN
    IF text_val = "" \/ text_val \in {"none", "no", "false"} THEN ""
    ELSE IF text_val \in VALID_RECURRENCE THEN text_val
    ELSE IF text_val \in {"yes", "true"} THEN "weekly"
    ELSE ""

(***************************************************************************)
(* Calendar.                                                               *)
(***************************************************************************)
NoDate == [year |-> 0, month |-> 0, day |-> 0]

IsLeap(y) == (y % 4 = 0 /\ y % 100 # 0) \/ y % 400 = 0

\* calendar.monthrange(year, month)[1]
DaysInMonth(y, m) ==
    IF m = 2 THEN (IF IsLeap(y) THEN 29 ELSE 28)
    ELSE IF m \in {4, 6, 9, 11} THEN 30 ELSE 31

MkDate(y, m, d) == [year |-> y, month |-> m, day |-> d]

IsDate(d) ==
    /\ d.month \in 1..12
    /\ d.day \in 1..DaysInMonth(d.year, d.month)

\* date + timedelta(days=1)
NextDay(d) ==
    IF d.day < DaysInMonth(d.year, d.month) THEN MkDate(d.year, d.month, d.day + 1)
    ELSE IF d.month < 12 THEN MkDate(d.year, d.month + 1, 1)
    ELSE MkDate(d.year + 1, 1, 1)

\* date - timedelta(days=1)
PrevDay(d) ==
    IF d.day > 1 THEN MkDate(d.year, d.month, d.day - 1)
    ELSE IF d.month > 1 THEN MkDate(d.year, d.month - 1, DaysInMonth(d.year, d.month - 1))
    ELSE MkDate(d.year - 1, 12, 31)

RECURSIVE AddDays(_, _)
\* date + timedelta(days=n), n >= 0
AddDays(d, n) == IF n = 0 THEN d ELSE AddDays(NextDay(d), n - 1)

\* date.isoformat()
iso_date(d) == <<d.year, d.month, d.day>>

\* parse_date: the date part of an ISO text, NoDate when it does not parse
parse_date(s) ==
    IF Len(s) \in {3, 5} /\ IsDate(MkDate(s[1], s[2], s[3]))
       /\ (Len(s) = 5 => (s[4] \in 0..23 /\ s[5] \in 0..59))
    THEN MkDate(s[1], s[2], s[3])
    ELSE NoDate

DaysPerWeek == 7

next_recurring_due_date_noclamp(current, pattern) ==
    LET freq == normalize_recurring(pattern) IN
    IF freq = "" THEN NoDate
    ELSE IF freq = "daily" THEN AddDays(current, 1)
    ELSE IF freq = "weekly" THEN AddDays(current, DaysPerWeek)
    ELSE LET month1 == current.month + 1
             year   == current.year + ((month1 - 1) \div 12)
             month  == ((month1 - 1) % 12) + 1
         IN  MkDate(year, month, current.day)

next_recurring_due_date(current, pattern) ==
    LET freq == normalize_recurring(pattern) IN
    IF freq = "" THEN NoDate
    ELSE IF freq = "daily" THEN AddDays(current, 1)
    ELSE IF freq = "weekly" THEN AddDays(current, DaysPerWeek)
    ELSE IF freq = "monthly" THEN
         LET month1   == current.month + 1
             year     == current.year + ((month1 - 1) \div 12)
             month    == ((month1 - 1) % 12) + 1
             last_day == DaysInMonth(year, month)
         IN  MkDate(year, month, IF current.day < last_day THEN current.day ELSE last_day)
    ELSE NoDate

(***************************************************************************)
(* Visibility.                                                             *)
(***************************************************************************)
\* next((u for u in users if _norm(u.username) == _norm(username)), None)
RECURSIVE FindUser(_, _)
FindUser(users, username) ==
    IF users = <<>> THEN [username |-> "", display_name |-> "", role |-> ""]
    ELSE IF Norm(Head(users).username) = Norm(username) THEN Head(users)
    ELSE FindUser(Tail(users), username)

assigned_to_me_username_only(task, username, users) ==
    LET task_username == Norm(task.assigned_username) IN
    task_username # "" /\ task_username = Norm(username)

assigned_to_me(task, username, users) ==
    LET task_username    == Norm(task.assigned_username)
        assignee_display == Norm(task.assigned_to)
        u                == FindUser(users, username)
        display_name     == IF u.username # "" THEN Norm(u.display_name) ELSE ""
    IN  IF task_username # "" /\ task_username = Norm(username) THEN TRUE
        ELSE IF assignee_display = "" THEN FALSE
        ELSE display_name # "" /\ assignee_display = display_name

task_owner(task) == Norm(Or(task.owner, task.created_by))

task_visible_to(task, username, users) ==
    LET uname == Norm(username) IN
    IF uname = "" THEN FALSE
    ELSE task_owner(task) = uname \/ assigned_to_me(task, username, users)

(***************************************************************************)
(* Timestamps.                                                             *)
(***************************************************************************)
NoDT == [year |-> 0, month |-> 0, day |-> 0, hour |-> 0, minute |-> 0, second |-> 0]

MkDT(d, h, mi, s) ==
    [year |-> d.year, month |-> d.month, day |-> d.day,
     hour |-> h, minute |-> mi, second |-> s]

\* datetime.date()
DateOf(dt) == MkDate(dt.year, dt.month, dt.day)

iso_minutes_keep_seconds(dt) == <<dt.year, dt.month, dt.day, dt.hour, dt.minute, dt.second>>

\* dt.replace(second=0, microsecond=0).isoformat(timespec="minutes")
iso_minutes(dt) == <<dt.year, dt.month, dt.day, dt.hour, dt.minute>>

\* parse_dt_any: a naive datetime, NoDT when the text does not parse
parse_dt_any(s) ==
    IF parse_date(s) = NoDate THEN NoDT
    ELSE IF Len(s) = 5 THEN MkDT(parse_date(s), s[4], s[5], 0)
    ELSE MkDT(parse_date(s), 0, 0, 0)

\* date.today()
Today == DateOf(now)

\* d1 < d2 on dates
DateLess(d1, d2) ==
    \/ d1.year < d2.year
    \/ d1.year = d2.year /\ d1.month < d2.month
    \/ d1.year = d2.year /\ d1.month = d2.month /\ d1.day < d2.day

(***************************************************************************)
(* Tags.                                                                   *)
(***************************************************************************)
RECURSIVE normalize_tags(_)
\* the list branch and the split-string branch keep the non-empty stripped tokens
normalize_tags(value) ==
    IF value = <<>> THEN <<>>
    ELSE LET token == Strip(Head(value)) IN
         IF token = "" THEN normalize_tags(Tail(value))
         ELSE <<token>> \o normalize_tags(Tail(value))

apply_task_defaults(task) ==
    [task EXCEPT !.tags = normalize_tags(task.tags),
                 !.recurring = normalize_recurring(task.recurring)]

(***************************************************************************)
(* The user directory: static in this model.  The rows of the users table  *)
(* come back ordered by username, and the users file holds the same list.  *)
(***************************************************************************)
Users ==
    << [username |-> "liz",    display_name |-> "Liz",    role |-> "member"],
       [username |-> "nick",   display_name |-> "Nick",   role |-> "member"],
       [username |-> "steven", display_name |-> "Steven", role |-> "manager"] >>

load_users == Users

Usernames == {Users[i].username : i \in 1..Len(Users)}

\* current_role() of a logged-in user
RoleOf(username) == FindUser(Users, username).role

RECURSIVE Tuple(_, _)
\* the list f[1], ..., f[n]
Tuple(f, n) == IF n = 0 THEN <<>> ELSE Append(Tuple(f, n - 1), f[n])

\* [Op(x) for x in s]
SeqMap(Op(_), s) == Tuple([i \in 1..Len(s) |-> Op(s[i])], Len(s))

(***************************************************************************)
(* The relational mirror of the tasks topic.                               *)
(***************************************************************************)
\* _optional_username
optional_username(value) == Norm(value)

\* the row built with every reference kept as given
TaskRow_keeping_dangling(item, idx, valid_usernames) ==
    LET assigned_username     == optional_username(item.assigned_username)
        owner_username        == optional_username(Or(item.owner, item.created_by))
        completed_by_username == optional_username(item.completed_by)
        parsed_created        == parse_dt_any(item.created_at)
    IN  [ text                  |-> item.text,
          done                  |-> item.done,
          priority              |-> Or(item.priority, "Medium"),
          notes                 |-> item.notes,
          due_date              |-> IF item.due_date # <<>> THEN parse_date(item.due_date) ELSE NoDate,
          recurring             |-> normalize_recurring(item.recurring),
          created_at            |-> IF parsed_created # NoDT THEN parsed_created ELSE now,
          completed_at          |-> IF item.completed_at # <<>> THEN parse_dt_any(item.completed_at) ELSE NoDT,
          overdue               |-> item.overdue,
          assigned_username     |-> assigned_username,
          assigned_display      |-> item.assigned_to,
          owner_username        |-> owner_username,
          completed_by_username |-> completed_by_username,
          position              |-> idx,
          extra                 |-> [due |-> item.due, tags |-> item.tags] ]

\* one TaskModel row built by save_tasks from a normalized task dict
TaskRow(item, idx, valid_usernames) ==
    LET assigned_username     == optional_username(item.assigned_username)
        owner_username        == optional_username(Or(item.owner, item.created_by))
        completed_by_username == optional_username(item.completed_by)
        parsed_created        == parse_dt_any(item.created_at)
    IN  [ text                  |-> item.text,
          done                  |-> item.done,
          priority              |-> Or(item.priority, "Medium"),
          notes                 |-> item.notes,
          due_date              |-> IF item.due_date # <<>> THEN parse_date(item.due_date) ELSE NoDate,
          recurring             |-> normalize_recurring(item.recurring),
          created_at            |-> IF parsed_created # NoDT THEN parsed_created ELSE now,
          completed_at          |-> IF item.completed_at # <<>> THEN parse_dt_any(item.completed_at) ELSE NoDT,
          overdue               |-> item.overdue,
          assigned_username     |-> IF assigned_username \in valid_usernames THEN assigned_username ELSE "",
          assigned_display      |-> item.assigned_to,
          owner_username        |-> IF owner_username \in valid_usernames THEN owner_username ELSE "",
          completed_by_username |-> IF completed_by_username \in valid_usernames THEN completed_by_username ELSE "",
          position              |-> idx,
          extra                 |-> [due |-> item.due, tags |-> item.tags] ]

\* _task_to_dict
task_to_dict(model) ==
    LET assignee == FindUser(Users, model.assigned_username)
        assigned_display ==
            IF model.assigned_display = "" /\ model.assigned_username # "" /\ assignee.username # ""
            THEN Or(assignee.display_name, Title(assignee.username))
            ELSE model.assigned_display
    IN  [ text              |-> model.text,
          done              |-> model.done,
          priority          |-> Or(model.priority, "Medium"),
          notes             |-> model.notes,
          assigned_to       |-> assigned_display,
          assigned_username |-> model.assigned_username,
          owner             |-> model.owner_username,
          created_by        |-> model.owner_username,
          overdue           |-> model.overdue,
          due_date          |-> IF model.due_date # NoDate THEN iso_date(model.due_date) ELSE <<>>,
          due               |-> model.extra.due,
          tags              |-> model.extra.tags,
          recurring         |-> model.recurring,
          created_at        |-> IF model.created_at # NoDT THEN iso_minutes(model.created_at) ELSE <<>>,
          completed_at      |-> IF model.completed_at # NoDT THEN iso_minutes(model.completed_at) ELSE <<>>,
          completed_by      |-> model.completed_by_username ]

load_tasks ==
    IF ~DB_ENABLED THEN SeqMap(apply_task_defaults, tasksFile)
    ELSE IF taskRows = <<>> THEN SeqMap(apply_task_defaults, tasksFile)
    ELSE LET ToDict(row) == apply_task_defaults(task_to_dict(row)) IN SeqMap(ToDict, taskRows)

\* the normalisation loop at the head of save_tasks
SaveNormalized(tasks) ==
    LET N(record) == [record EXCEPT !.tags = normalize_tags(record.tags),
                                    !.recurring = normalize_recurring(record.recurring)]
    IN  SeqMap(N, tasks)

\* the transactional replace-all of save_tasks
SaveRows(tasks) ==
    LET normalized == SaveNormalized(tasks) IN
    Tuple([idx \in 1..Len(normalized) |-> TaskRow(normalized[idx], idx - 1, Usernames)],
          Len(normalized))

\* save_tasks(tasks): the new (file, rows)
save_tasks(tasks) ==
    IF ~DB_ENABLED
    THEN /\ tasksFile' = SaveNormalized(tasks)
         /\ UNCHANGED taskRows
    ELSE /\ taskRows' = SaveRows(tasks)
         /\ UNCHANGED tasksFile

(***************************************************************************)
(* Achievement engine: the part a toggle runs.                             *)
(***************************************************************************)
BADGE_SLUG_FIRST_STEP     == "first_step"
BADGE_SLUG_TASK_MASTER    == "task_master"
BADGE_SLUG_WEEKLY_WARRIOR == "weekly_warrior"

\* the slugs of DEFAULT_BADGES, which bootstrap_badges seeds
BadgeCatalog == {BADGE_SLUG_FIRST_STEP, BADGE_SLUG_TASK_MASTER, BADGE_SLUG_WEEKLY_WARRIOR}

TargetFirstStep     == 1
TargetTaskMaster    == 100
TargetWeeklyWarrior == 7

Attributed_assignee_first(task) ==
    IF task.assigned_username # "" THEN Norm(task.assigned_username)
    ELSE Norm(task.completed_by)

\* the user a completed task is attributed to
Attributed(task) ==
    LET completed_by == Norm(task.completed_by) IN
    IF completed_by = "" /\ task.assigned_username # ""
    THEN Norm(task.assigned_username)
    ELSE completed_by

CompletedTasks(uname, tasks) ==
    LET Mine(task) == task.done /\ Attributed(task) = uname IN SelectSeq(tasks, Mine)

\* set(completion_dates)
CompletionDates(uname, tasks) ==
    LET done == CompletedTasks(uname, tasks) IN
    { DateOf(parse_dt_any(done[i].completed_at)) :
        i \in { j \in 1..Len(done) : /\ done[j].completed_at # <<>>
                                     /\ parse_dt_any(done[j].completed_at) # NoDT } }

RECURSIVE SortDates(_)
\* sorted(set(...))
SortDates(S) ==
    IF S = {} THEN <<>>
    ELSE LET m == CHOOSE d \in S : \A e \in S : e = d \/ DateLess(d, e)
         IN  <<m>> \o SortDates(S \ {m})

RECURSIVE StreakLoop_no_reset(_, _, _, _)
StreakLoop_no_reset(rest, prev_date, streak, longest) ==
    IF rest = <<>> THEN longest
    ELSE StreakLoop_no_reset(Tail(rest), Head(rest), streak + 1, streak + 1)

RECURSIVE StreakLoop(_, _, _, _)
\* the loop over unique_dates: (rest, prev_date, streak, longest_streak)
StreakLoop(rest, prev_date, streak, longest) ==
    IF rest = <<>> THEN longest
    ELSE LET current_date == Head(rest)
             streak1 == IF prev_date # NoDate /\ current_date = NextDay(prev_date)
                        THEN streak + 1 ELSE 1
             longest1 == IF streak1 > longest THEN streak1 ELSE longest
         IN  StreakLoop(Tail(rest), current_date, streak1, longest1)

CurrentStreak_ignoring_today(cursor, completion_set) == Cardinality(completion_set)

RECURSIVE CurrentStreak(_, _)
\* the loop `while cursor in completion_set`, cursor starting at date.today()
CurrentStreak(cursor, completion_set) ==
    IF cursor \in completion_set
    THEN 1 + CurrentStreak(PrevDay(cursor), completion_set)
    ELSE 0

\* get_user_completion_stats: the counts it returns
get_user_completion_stats(username, tasks) ==
    LET uname == Norm(username) IN
    IF uname = "" THEN [completed_count |-> 0, longest_streak |-> 0, current_streak |-> 0]
    ELSE LET unique_dates == SortDates(CompletionDates(uname, tasks)) IN
         [ completed_count |-> Len(CompletedTasks(uname, tasks)),
           longest_streak  |-> StreakLoop(unique_dates, NoDate, 0, 0),
           current_streak  |-> IF unique_dates # <<>>
                               THEN CurrentStreak(Today, CompletionDates(uname, tasks))
                               ELSE 0 ]

\* the slugs of get_user_badges(uname)
EarnedSlugs(ub, uname) ==
    { ub[i].badge_slug : i \in { j \in 1..Len(ub) : /\ Norm(ub[j].username) = uname
                                                    /\ ub[j].badge_slug \in BadgeCatalog } }

store_user_badge_nodupcheck(ub, username, badge_slug) ==
    Append(ub, [username |-> Norm(username), badge_slug |-> badge_slug,
                earned_at |-> iso_minutes(now)])

\* store_user_badge: the collection after the call
store_user_badge(ub, username, badge_slug) ==
    LET uname == Norm(username) IN
    IF uname = "" \/ badge_slug \notin BadgeCatalog THEN ub
    ELSE IF \E i \in 1..Len(ub) : Norm(ub[i].username) = uname /\ ub[i].badge_slug = badge_slug
    THEN ub
    ELSE Append(ub, [username |-> uname, badge_slug |-> badge_slug,
                     earned_at |-> iso_minutes(now)])

award_badges_for_user_unconditional(ub, username, task_list) ==
    LET uname == Norm(username)
        stats == get_user_completion_stats(uname, task_list)
    IN  IF uname # "" /\ stats.completed_count >= TargetFirstStep
        THEN store_user_badge_nodupcheck(ub, uname, BADGE_SLUG_FIRST_STEP)
        ELSE ub

\* the targets list of award_badges_for_user
award_targets(ub, uname, task_list) ==
    LET stats  == get_user_completion_stats(uname, task_list)
        earned == EarnedSlugs(ub, uname)
        Target(slug, reached) == IF slug \notin earned /\ reached THEN <<slug>> ELSE <<>>
    IN  Target(BADGE_SLUG_FIRST_STEP, stats.completed_count >= TargetFirstStep)
        \o Target(BADGE_SLUG_TASK_MASTER, stats.completed_count >= TargetTaskMaster)
        \o Target(BADGE_SLUG_WEEKLY_WARRIOR, stats.longest_streak >= TargetWeeklyWarrior)

RECURSIVE StoreTargets(_, _, _)
\* the loop `for slug in targets: store_user_badge(uname, slug)`
StoreTargets(ub, uname, targets) ==
    IF targets = <<>> THEN ub
    ELSE StoreTargets(store_user_badge(ub, uname, Head(targets)), uname, Tail(targets))

\* award_badges_for_user: the collection after the call
award_badges_for_user(ub, username, task_list) ==
    LET uname == Norm(username) IN
    IF uname = "" THEN ub
    ELSE StoreTargets(ub, uname, award_targets(ub, uname, task_list))

(***************************************************************************)
(* Request handlers.  A task index in a URL is a non-negative integer      *)
(* (the <int:task_id> converter), so out of range means >= len(ts).        *)
(***************************************************************************)
\* form submissions of /add and /edit
Forms ==
    { [task |-> "a", priority |-> "Medium", assigned_to |-> "", due_date |-> <<>>,
       recurring |-> "", notes |-> "", tags |-> <<>>],
      [task |-> "b", priority |-> "High", assigned_to |-> "liz", due_date |-> <<2024, 1, 31>>,
       recurring |-> "MONTHLY", notes |-> "n", tags |-> <<" x ", " ">>],
      [task |-> "d", priority |-> "Medium", assigned_to |-> " NICK ", due_date |-> <<2024, 1, 1>>,
       recurring |-> "YES", notes |-> "", tags |-> <<"x", "x">>],
      [task |-> " ", priority |-> "Medium", assigned_to |-> "", due_date |-> <<>>,
       recurring |-> "", notes |-> "", tags |-> <<>>] }

EditForms ==
    {[task |-> "c", priority |-> "Low", assigned_to |-> "Zoe", due_date |-> <<2024, 2, 30>>,
        recurring |-> "weekly", notes |-> "", tags |-> <<>>] }

\* JSON payloads of PATCH /api/tasks/<id>/due
DuePayloads ==
    { [due_date |-> <<2024, 1, 15>>, all_day |-> TRUE],
      [due_date |-> <<2024, 2, 20, 10, 30>>, all_day |-> FALSE],
      [due_date |-> <<2024, 13, 1>>, all_day |-> TRUE] }

TaskIds == 0..MaxTasks

InRange(task_id, ts) == 0 <= task_id /\ task_id < Len(ts)

\* role == "manager" or task_visible_to(t, username, users)
Authorized(t, username) ==
    RoleOf(username) = "manager" \/ task_visible_to(t, username, load_users)

\* the assignee fields add and edit derive from the form
Assignee(assignee_raw) ==
    LET assignee_key  == Norm(assignee_raw)
        assignee_user == FindUser(load_users, assignee_key)
    IN  IF assignee_key # "" /\ assignee_user.username # ""
        THEN [assigned_to |-> Or(assignee_user.display_name, Title(assignee_user.username)),
              assigned_username |-> Norm(assignee_user.username)]
        ELSE IF assignee_key # ""
        THEN [assigned_to |-> assignee_raw, assigned_username |-> assignee_key]
        ELSE [assigned_to |-> "", assigned_username |-> ""]

\* what the handler reported: the history the properties below read
Note(op, username, task_id, denied, applied) ==
    /\ reqs' = reqs + 1
    /\ last' = IF applied
               THEN [op |-> op, user |-> username, task_id |-> task_id,
                     denied |-> FALSE, applied |-> TRUE]
               ELSE [op |-> op, user |-> "", task_id |-> 0,
                     denied |-> denied, applied |-> FALSE]

\* POST /add
add(username, form) ==
    LET text == Strip(form.task)
        ts   == load_tasks
        a    == Assignee(Strip(form.assigned_to))
        new  == [ text |-> text, done |-> FALSE, priority |-> form.priority,
                  assigned_to |-> a.assigned_to, assigned_username |-> a.assigned_username,
                  due_date |-> form.due_date, due |-> <<>>,
                  recurring |-> normalize_recurring(form.recurring),
                  notes |-> Strip(form.notes), tags |-> normalize_tags(form.tags),
                  owner |-> username, created_by |-> username,
                  created_at |-> iso_minutes(now),
                  completed_at |-> <<>>, completed_by |-> "", overdue |-> FALSE ]
    IN  IF text = ""
        THEN /\ Note("add", username, 0, FALSE, FALSE)
             /\ UNCHANGED <<tasksFile, taskRows>>
        ELSE /\ Len(ts) < MaxTasks
             /\ save_tasks(Append(ts, new))
             /\ Note("add", username, Len(ts), FALSE, TRUE)

\* the sibling a completed recurring task spawns
NewTask(t, next_due) ==
    [t EXCEPT !.completed_at = <<>>, !.completed_by = "", !.done = FALSE,
              !.overdue = FALSE, !.created_at = iso_minutes(now),
              !.due_date = iso_date(next_due)]

ToggledTasks_no_sibling(ts, task_id, username) ==
    LET t == ts[task_id + 1] IN
    IF ~t.done
    THEN [ts EXCEPT ![task_id + 1] = [t EXCEPT !.done = TRUE,
                                               !.completed_at = iso_minutes(now),
                                               !.completed_by = username]]
    ELSE [ts EXCEPT ![task_id + 1] = [t EXCEPT !.done = FALSE, !.completed_at = <<>>,
                                               !.completed_by = ""]]

ToggledTasks_keep_stamp(ts, task_id, username) ==
    LET t == ts[task_id + 1] IN
    IF ~t.done
    THEN [ts EXCEPT ![task_id + 1] = [t EXCEPT !.done = TRUE,
                                               !.completed_at = iso_minutes(now),
                                               !.completed_by = username]]
    ELSE [ts EXCEPT ![task_id + 1] = [t EXCEPT !.done = FALSE]]

ToggledTasks_owner_as_completer(ts, task_id, username) ==
    LET t == ts[task_id + 1] IN
    IF ~t.done
    THEN [ts EXCEPT ![task_id + 1] = [t EXCEPT !.done = TRUE,
                                               !.completed_at = iso_minutes(now),
                                               !.completed_by = t.owner]]
    ELSE [ts EXCEPT ![task_id + 1] = [t EXCEPT !.done = FALSE, !.completed_at = <<>>,
                                               !.completed_by = ""]]

\* the task list an authorized toggle builds
ToggledTasks(ts, task_id, username) ==
    LET t == ts[task_id + 1] IN
    IF ~t.done
    THEN LET t1        == [t EXCEPT !.done = TRUE, !.completed_at = iso_minutes(now),
                                    !.completed_by = username]
             recurring == normalize_recurring(t1.recurring)
             due_date  == parse_date(t1.due_date)
             next_due  == IF recurring # "" /\ t1.due_date # <<>> /\ due_date # NoDate
                          THEN next_recurring_due_date(due_date, recurring)
                          ELSE NoDate
             ts1       == [ts EXCEPT ![task_id + 1] = t1]
         IN  IF next_due # NoDate THEN Append(ts1, NewTask(t1, next_due)) ELSE ts1
    ELSE [ts EXCEPT ![task_id + 1] = [t EXCEPT !.done = FALSE, !.completed_at = <<>>,
                                               !.completed_by = ""]]

\* POST /toggle/<task_id>
toggle(username, task_id) ==
    LET ts == load_tasks
        ok == InRange(task_id, ts) /\ Authorized(ts[task_id + 1], username)
    IN  IF ok
        THEN LET ts2 == ToggledTasks(ts, task_id, username) IN
             /\ Len(ts2) <= MaxTasks
             /\ userBadges' = IF ts2[task_id + 1].done
                              THEN award_badges_for_user(userBadges, username, ts2)
                              ELSE userBadges
             /\ save_tasks(ts2)
             /\ Note("toggle", username, task_id, FALSE, TRUE)
        ELSE /\ UNCHANGED userBadges
             /\ save_tasks(ts)
             /\ Note("toggle", username, task_id, TRUE, FALSE)

RemoveAt(ts, task_id) ==
    Tuple([i \in 1..(Len(ts) - 1) |-> IF i <= task_id THEN ts[i] ELSE ts[i + 1]],
          Len(ts) - 1)

\* GET /remove/<task_id>
remove(username, task_id) ==
    LET ts == load_tasks
        ok == InRange(task_id, ts) /\ Authorized(ts[task_id + 1], username)
    IN  IF ok
        THEN /\ save_tasks(RemoveAt(ts, task_id))
             /\ Note("remove", username, task_id, FALSE, TRUE)
        ELSE /\ UNCHANGED <<tasksFile, taskRows>>
             /\ Note("remove", username, task_id, TRUE, FALSE)

\* the task an authorized POST /edit builds
EditedTask(t, username, form) ==
    LET a  == Assignee(Strip(form.assigned_to))
        t1 == [t EXCEPT !.text = Or(Strip(form.task), t.text),
                        !.priority = form.priority]
        t2 == IF RoleOf(username) = "manager"
              THEN [t1 EXCEPT !.assigned_to = a.assigned_to,
                              !.assigned_username = a.assigned_username]
              ELSE t1
    IN  [t2 EXCEPT !.due_date = form.due_date, !.notes = Strip(form.notes),
                   !.tags = normalize_tags(form.tags),
                   !.recurring = normalize_recurring(form.recurring)]

\* POST /edit/<task_id>
edit(username, task_id, form) ==
    LET ts == load_tasks
        ok == InRange(task_id, ts) /\ Authorized(ts[task_id + 1], username)
    IN  IF ok
        THEN LET ts2 == [ts EXCEPT ![task_id + 1] = EditedTask(ts[task_id + 1], username, form)] IN
             /\ save_tasks(ts2)
             /\ Note("edit", username, task_id, FALSE, TRUE)
        ELSE /\ UNCHANGED <<tasksFile, taskRows>>
             /\ Note("edit", username, task_id, TRUE, FALSE)

\* the due text update_task_due_date stores, <<>> when the payload is rejected
NewDue(payload) ==
    LET due_dt == parse_dt_any(payload.due_date) IN
    IF payload.due_date = <<>> \/ due_dt = NoDT THEN <<>>
    ELSE IF payload.all_day THEN iso_date(DateOf(due_dt))
    ELSE iso_minutes(due_dt)

\* PATCH /api/tasks/<task_id>/due
update_task_due_date(username, task_id, payload) ==
    LET tasks   == load_tasks
        ok      == InRange(task_id, tasks) /\ Authorized(tasks[task_id + 1], username)
        new_due == NewDue(payload)
    IN  IF ~ok
        THEN /\ UNCHANGED <<tasksFile, taskRows>>
             /\ Note("due", username, task_id, TRUE, FALSE)
        ELSE IF new_due = <<>>
        THEN /\ UNCHANGED <<tasksFile, taskRows>>
             /\ Note("due", username, task_id, FALSE, FALSE)
        ELSE LET task == tasks[task_id + 1]
                 t1   == [task EXCEPT !.due_date = new_due, !.due = new_due]
                 t2   == IF ~task.done
                         THEN [t1 EXCEPT !.overdue = DateLess(parse_date(new_due), Today)]
                         ELSE t1
                 ts2  == [tasks EXCEPT ![task_id + 1] = t2]
             IN  /\ save_tasks(ts2)
                 /\ Note("due", username, task_id, FALSE, TRUE)

(***************************************************************************)
(* The task lifecycle specification.                                       *)
(***************************************************************************)
\* a legacy record: a display label only, no usernames
LegacyTask ==
    [ text |-> "legacy", done |-> FALSE, priority |-> "Medium",
      assigned_to |-> "Nick", assigned_username |-> "",
      due_date |-> <<2024, 1, 1>>, due |-> <<>>, recurring |-> "weekly",
      notes |-> "", tags |-> <<>>, owner |-> "", created_by |-> "",
      created_at |-> <<2024, 1, 1, 9, 0>>,
      completed_at |-> <<>>, completed_by |-> "", overdue |-> FALSE ]

\* a record the flat-file add wrote for a hand-typed assignee
TypedAssigneeTask ==
    [LegacyTask EXCEPT !.text = "typed", !.assigned_to = "Zoe", !.assigned_username = "zoe",
                       !.owner = "steven", !.created_by = "steven", !.recurring = "",
                       !.due_date = <<>>]

InitFiles == { <<>>, <<LegacyTask>>, <<TypedAssigneeTask>> }

StartClock == MkDT(MkDate(2024, 1, 30), 10, 0, 30)

NoRequest ==
    [op |-> "none", user |-> "", task_id |-> 0, denied |-> FALSE, applied |-> FALSE]

PureIdle == /\ pin = <<>>
            /\ pout = <<>>

StoreIdle ==
    /\ inodes = <<>>
    /\ dirent = 0
    /\ lockHolder = 0
    /\ procs = <<>>
    /\ rows = <<>>
    /\ order = <<>>
    /\ committed = 0
    /\ nextVersion = 0
    /\ LOCKING = FALSE

LifeIdle ==
    /\ tasksFile = <<>>
    /\ taskRows = <<>>
    /\ userBadges = <<>>
    /\ now = StartClock
    /\ ticks = 0
    /\ reqs = 0
    /\ last = NoRequest

Init ==
    /\ DB_ENABLED \in BOOLEAN
    /\ tasksFile \in InitFiles
    /\ taskRows = <<>>
    /\ userBadges = <<>>
    /\ now = StartClock
    /\ ticks = 0
    /\ reqs = 0
    /\ last = NoRequest
    /\ PureIdle
    /\ StoreIdle

Add ==
    /\ reqs < MaxRequests
    /\ \E u \in Usernames, f \in Forms :
          /\ add(u, f)
          /\ UNCHANGED <<DB_ENABLED, userBadges, now, ticks>>

Toggle ==
    /\ reqs < MaxRequests
    /\ \E u \in Usernames, id \in TaskIds :
          /\ toggle(u, id)
          /\ UNCHANGED <<DB_ENABLED, now, ticks>>

Remove ==
    /\ reqs < MaxRequests
    /\ \E u \in Usernames, id \in TaskIds :
          /\ remove(u, id)
          /\ UNCHANGED <<DB_ENABLED, userBadges, now, ticks>>

Edit ==
    /\ reqs < MaxRequests
    /\ \E u \in Usernames, id \in TaskIds, f \in EditForms :
          /\ edit(u, id, f)
          /\ UNCHANGED <<DB_ENABLED, userBadges, now, ticks>>

UpdateDue ==
    /\ reqs < MaxRequests
    /\ \E u \in Usernames, id \in TaskIds, p \in DuePayloads :
          /\ update_task_due_date(u, id, p)
          /\ UNCHANGED <<DB_ENABLED, userBadges, now, ticks>>

\* midnight passes
Tick ==
    /\ ticks < MaxTicks
    /\ ticks' = ticks + 1
    /\ now' = MkDT(NextDay(DateOf(now)), now.hour, now.minute, now.second)
    /\ UNCHANGED <<DB_ENABLED, tasksFile, taskRows, userBadges, reqs, last>>

Next ==
    \/ (Add /\ UNCHANGED <<pureVars, storeVars>>)
    \/ (Toggle /\ UNCHANGED <<pureVars, storeVars>>)
    \/ (Remove /\ UNCHANGED <<pureVars, storeVars>>)
    \/ (Edit /\ UNCHANGED <<pureVars, storeVars>>)
    \/ (UpdateDue /\ UNCHANGED <<pureVars, storeVars>>)
    \/ (Tick /\ UNCHANGED <<pureVars, storeVars>>)

Spec == Init /\ [][Next]_vars

(***************************************************************************)
(* Properties of the task lifecycle (specification Spec).                  *)
(***************************************************************************)
\* a step in which a handler applied its change
Applied(op) == last'.op = op /\ last'.applied /\ reqs' = reqs + 1

DoneIffStamped(t) == t.done <=> (t.completed_at # <<>>)

\* C1: in every reachable state every task, as loaded and as stored in the
\* flat file and in the table, is done if and only if its completed_at is set.
C1_DoneIffCompletedAt ==
    /\ \A i \in 1..Len(load_tasks) : DoneIffStamped(load_tasks[i])
    /\ \A i \in 1..Len(tasksFile) : DoneIffStamped(tasksFile[i])
    /\ \A i \in 1..Len(taskRows) : taskRows[i].done <=> (taskRows[i].completed_at # NoDT)

\* a toggle completed a task in the relational backend: the task is done and
\* stamped, while another task is neither
C1_Witness ==
    /\ last.op = "toggle" /\ last.applied /\ DB_ENABLED /\ taskRows # <<>>
    /\ load_tasks[last.task_id + 1].done
    /\ load_tasks[last.task_id + 1].completed_at # <<>>
    /\ \E i \in 1..Len(load_tasks) :
          ~load_tasks[i].done /\ load_tasks[i].completed_at = <<>>

\* whether completing t spawns a sibling
Recurs(t) ==
    /\ normalize_recurring(t.recurring) \in {"daily", "weekly", "monthly"}
    /\ parse_date(t.due_date) # NoDate

\* C2: an authorized toggle of a not-done task appends exactly one sibling
\* when the recurrence is daily/weekly/monthly and the due date parses, and
\* none otherwise; the sibling is not done, carries no completion metadata and
\* is due at the next occurrence; the original stays done with its due date.
C2_RecurringSibling ==
    [][ (Applied("toggle") /\ ~load_tasks[last'.task_id + 1].done) =>
        LET pre  == load_tasks
            post == load_tasks'
            k    == last'.task_id + 1
            t    == pre[k]
        IN  /\ post[k].done
            /\ post[k].due_date = t.due_date
            /\ IF Recurs(t)
               THEN /\ Len(post) = Len(pre) + 1
                    /\ ~post[Len(post)].done
                    /\ post[Len(post)].completed_at = <<>>
                    /\ post[Len(post)].completed_by = ""
                    /\ post[Len(post)].due_date =
                         iso_date(next_recurring_due_date(parse_date(t.due_date), t.recurring))
               ELSE Len(post) = Len(pre)
      ]_vars

\* weekly, due 2024-01-01, completed: the original is done, the last task is
\* its sibling due 2024-01-08
C2_Witness ==
    /\ last.op = "toggle" /\ last.applied
    /\ Len(load_tasks) = last.task_id + 2
    /\ LET t == load_tasks[last.task_id + 1]
           n == load_tasks[Len(load_tasks)]
       IN  /\ t.done /\ t.recurring = "weekly" /\ t.due_date = <<2024, 1, 1>>
           /\ ~n.done /\ n.completed_at = <<>> /\ n.due_date = <<2024, 1, 8>>

\* C4: an authorized toggle of a not-done task sets done, completed_at (the
\* clock, to the minute) and completed_by (the acting user); an authorized
\* toggle of a done task clears all three.
C4_CompletionTransition ==
    [][ Applied("toggle") =>
        LET k  == last'.task_id + 1
            t  == load_tasks[k]
            t2 == load_tasks'[k]
        IN  IF ~t.done
            THEN /\ t2.done
                 /\ t2.completed_at = <<now.year, now.month, now.day, now.hour, now.minute>>
                 /\ t2.completed_by = last'.user
            ELSE /\ ~t2.done
                 /\ t2.completed_at = <<>>
                 /\ t2.completed_by = ""
      ]_vars

\* a member completed a task on the second day, in the relational backend
C4_Witness ==
    /\ last.op = "toggle" /\ last.applied /\ last.user = "nick"
    /\ DB_ENABLED /\ ticks = 1
    /\ load_tasks[last.task_id + 1].done
    /\ load_tasks[last.task_id + 1].completed_by = "nick"
    /\ load_tasks[last.task_id + 1].completed_at = <<2024, 1, 31, 10, 0>>

\* C5 (as claimed): a denied request (index out of range, or a task not
\* visible to a non-manager) leaves the persisted task list and the
\* user-badge collection exactly as they were, in both backends.
C5_DeniedIsNoOp ==
    [][ (last'.denied /\ reqs' = reqs + 1) =>
        (load_tasks' = load_tasks /\ userBadges' = userBadges) ]_vars

(***************************************************************************)
(* next_recurring_due_date as a function (specification SpecRecur).        *)
(***************************************************************************)
RecurYears == BaseYear..(BaseYear + YearSpan)

RecurDates ==
    { d \in [year : RecurYears, month : 1..12, day : 1..31] : IsDate(d) }

RecurPatterns ==
    { "", "daily", "weekly", "monthly", "Daily", "Weekly ", "MONTHLY", "YES", "True",
      "None", "No", "False", "fortnightly" }

Pending == [done |-> FALSE, value |-> FALSE]

InitRecur ==
    /\ pin \in [current : RecurDates, pattern : RecurPatterns]
    /\ pout = Pending
    /\ DB_ENABLED = FALSE
    /\ LifeIdle
    /\ StoreIdle

RecurApply ==
    /\ ~pout.done
    /\ pout' = [done |-> TRUE, value |-> next_recurring_due_date(pin.current, pin.pattern)]
    /\ UNCHANGED <<pin, lifeVars, storeVars>>

NextRecur == RecurApply

SpecRecur == InitRecur /\ [][NextRecur]_vars

\* the proleptic Gregorian ordinal of a date
Ordinal(d) ==
    LET y == d.year - 1
        DaysBefore(m) == IF m = 1 THEN 0
                         ELSE 31 * (m - 1)
                              - (IF m > 2 THEN (IF IsLeap(d.year) THEN 2 ELSE 3) ELSE 0)
                              - (IF m > 4 THEN 1 ELSE 0) - (IF m > 6 THEN 1 ELSE 0)
                              - (IF m > 9 THEN 1 ELSE 0) - (IF m > 11 THEN 1 ELSE 0)
    IN  365 * y + (y \div 4) - (y \div 100) + (y \div 400) + DaysBefore(d.month) + d.day

\* C3: daily gives the day after, weekly the day seven days after, monthly
\* the same day of the next calendar month (December rolls into January of
\* the next year) clamped to that month's last day, and a pattern that
\* normalizes to none gives no date.
C3_NextOccurrence ==
    pout.done =>
        LET d    == pin.current
            r    == pout.value
            freq == normalize_recurring(pin.pattern)
        IN  /\ freq = "daily"  => (IsDate(r) /\ Ordinal(r) = Ordinal(d) + 1)
            /\ freq = "weekly" => (IsDate(r) /\ Ordinal(r) = Ordinal(d) + 7)
            /\ freq = "monthly" =>
                 /\ IsDate(r)
                 /\ r.month = (IF d.month = 12 THEN 1 ELSE d.month + 1)
                 /\ r.year = (IF d.month = 12 THEN d.year + 1 ELSE d.year)
                 /\ \/ r.day = d.day
                    \/ r.day < d.day /\ r.day = DaysInMonth(r.year, r.month)
            /\ freq = "" => r = NoDate
            /\ freq \in {"", "daily", "weekly", "monthly"}

\* 2024-01-31, monthly: 2024-02-29
C3_Witness ==
    /\ pout.done
    /\ pin.current = MkDate(2024, 1, 31)
    /\ normalize_recurring(pin.pattern) = "monthly"
    /\ pout.value = MkDate(2024, 2, 29)

(***************************************************************************)
(* task_visible_to as a function (specification SpecVis).                  *)
(***************************************************************************)
VisUsernames == {"nick", "liz", "nicky"}
VisDisplays  == {"Nick", " NICK ", "Liz", ""}

VisUser(u, d) == [username |-> u, display_name |-> d, role |-> "member"]

\* user directories with distinct canonical usernames
VisDirectories ==
    { <<>> }
    \cup { <<VisUser(u, d)>> : u \in VisUsernames, d \in VisDisplays }
    \cup { p \in { <<VisUser(u1, d1), VisUser(u2, d2)>> :
                       u1 \in VisUsernames, u2 \in VisUsernames,
                       d1 \in VisDisplays, d2 \in VisDisplays } :
             p[1].username # p[2].username }

VisTasks ==
    { [LegacyTask EXCEPT !.owner = o, !.assigned_username = a, !.assigned_to = l] :
        o \in {"", "nick", "Liz"}, a \in {"", "nick", "liz"}, l \in {"", "Nick", "Liz", " NICK "} }

VisActors == {"", "nick", "Nick", "liz", "nicky"}

InitVis ==
    /\ pin \in [task : VisTasks, username : VisActors, users : VisDirectories]
    /\ pout = Pending
    /\ DB_ENABLED = FALSE
    /\ LifeIdle
    /\ StoreIdle

VisApply ==
    /\ ~pout.done
    /\ pout' = [done |-> TRUE, value |-> task_visible_to(pin.task, pin.username, pin.users)]
    /\ UNCHANGED <<pin, lifeVars, storeVars>>

NextVis == VisApply

SpecVis == InitVis /\ [][NextVis]_vars

\* U's record in the directory, if any
InDirectory(users, username) == \E i \in 1..Len(users) : users[i].username = username

DisplayOf(users, username) ==
    LET i == CHOOSE j \in 1..Len(users) : users[j].username = username IN users[i].display_name

\* the label matches U's display name, case-insensitively
LabelMatches(task, username, users) ==
    /\ InDirectory(users, StripLower(username))
    /\ StripLower(task.assigned_to) # ""
    /\ StripLower(task.assigned_to) = StripLower(DisplayOf(users, StripLower(username)))

\* C6 (as claimed): visible iff U is non-empty and U is the owner, or the
\* assigned username, or the task has no assigned username and its label is
\* U's display name; a task assigned by username to someone else is never
\* visible through the label.
C6_VisibilityRule ==
    pout.done =>
        LET t == pin.task
            U == StripLower(pin.username)
        IN  pout.value <=>
              /\ U # ""
              /\ \/ StripLower(IF t.owner # "" THEN t.owner ELSE t.created_by) = U
                 \/ StripLower(t.assigned_username) = U
                 \/ t.assigned_username = "" /\ LabelMatches(t, pin.username, pin.users)

\* the case C7 is about: a label-only task "Nick", and a directory holding
\* nick with display name "Nick"
C7_Case ==
    /\ pin.task.assigned_to = "Nick"
    /\ pin.task.assigned_username = ""
    /\ pin.task.owner = "" /\ pin.task.created_by = ""
    /\ InDirectory(pin.users, "nick")
    /\ DisplayOf(pin.users, "nick") = "Nick"

\* C7 (as claimed): the task is visible to nick and to no other user of the
\* directory, whatever the directory.
C7_OnlyNick ==
    (pout.done /\ C7_Case) =>
        /\ pin.username = "nick" => pout.value
        /\ (pin.username # "nick" /\ InDirectory(pin.users, pin.username)) => ~pout.value

\* C7 (amended): the task is visible to nick, and to no other user of the
\* directory whose display name differs from "Nick" (compared trimmed and
\* case-insensitively).
C7_OnlyNickOrNamesake ==
    (pout.done /\ C7_Case) =>
        /\ pin.username = "nick" => pout.value
        /\ ( /\ pin.username # "nick"
             /\ InDirectory(pin.users, pin.username)
             /\ StripLower(DisplayOf(pin.users, pin.username)) # "nick" ) => ~pout.value

\* nick sees the label-only task, with another user in the directory
C7_Witness ==
    /\ pout.done /\ C7_Case
    /\ pin.username = "nick" /\ pout.value
    /\ Len(pin.users) = 2

(***************************************************************************)
(* Round trip of the tasks topic: save_tasks(X) followed by load_tasks(),  *)
(* with nothing in between, under either backend.  X ranges over lists of  *)
(* records as the handlers leave them: normalized recurrence and tags,     *)
(* usernames of existing users, minute-resolution timestamps.              *)
(***************************************************************************)
RTCompletedAt == <<2024, 1, 2, 8, 30>>

RTTasks ==
    { [LegacyTask EXCEPT !.text = text, !.assigned_username = assignee,
                         !.owner = "steven", !.created_by = "steven",
                         !.done = done,
                         !.completed_at = IF done THEN RTCompletedAt ELSE <<>>,
                         !.completed_by = IF done THEN "nick" ELSE ""] :
        text \in {"a", "b"}, assignee \in {"", "liz"}, done \in BOOLEAN }

RECURSIVE ListsUpTo(_, _)
ListsUpTo(S, n) ==
    IF n = 0 THEN {<<>>}
    ELSE LET shorter == ListsUpTo(S, n - 1) IN
         shorter \cup { Append(l, x) : l \in { s \in shorter : Len(s) = n - 1 }, x \in S }

InitRT ==
    /\ pin \in ListsUpTo(RTTasks, MaxTasks)
    /\ pout = Pending
    /\ DB_ENABLED \in BOOLEAN
    /\ tasksFile \in InitFiles
    /\ taskRows = <<>>
    /\ userBadges = <<>>
    /\ now = StartClock
    /\ ticks = 0
    /\ reqs = 0
    /\ last = NoRequest
    /\ StoreIdle

RTSave ==
    /\ reqs = 0
    /\ save_tasks(pin)
    /\ reqs' = 1
    /\ UNCHANGED <<DB_ENABLED, userBadges, now, ticks, last, pin, pout>>

RTLoad ==
    /\ reqs = 1
    /\ pout' = [done |-> TRUE, value |-> load_tasks]
    /\ reqs' = 2
    /\ UNCHANGED <<DB_ENABLED, tasksFile, taskRows, userBadges, now, ticks, last, pin>>

NextRT ==
    \/ RTSave /\ UNCHANGED storeVars
    \/ RTLoad /\ UNCHANGED storeVars

SpecRT == InitRT /\ [][NextRT]_vars

\* C9: loading right after saving a list gives back that list, under the
\* flat-file and the relational backend alike, the empty list included.
C9_RoundTrip == pout.done => pout.value = pin

(***************************************************************************)
(* The store protocol of one topic: save_json_atomic and load_json run by  *)
(* several worker processes, one system call per step.  A JSON document is *)
(* written in two chunks; a document is decodable only when both chunks    *)
(* of the same content are there.  With the relational backend the tasks   *)
(* topic is saved by one transaction and loaded by a query that falls back *)
(* to the flat file when the table has no rows.                            *)
(***************************************************************************)
Procs == 1..MaxProcs

Content(ver, empty) == [ver |-> ver, empty |-> empty]

Placeholder == Content(0, TRUE)

NoResult == [kind |-> "none", content |-> Placeholder]

IdleProc == [pc |-> "idle", tmp |-> 0, fd |-> 0, content |-> Placeholder,
             buf |-> <<>>, seen |-> 0, pos |-> 0, forLoad |-> FALSE, result |-> NoResult]

StoreFiles == {"missing", "empty", "full"}

InitialContent(file) == Content(0, file = "empty")

InitStore ==
    /\ DB_ENABLED \in BOOLEAN
    /\ LOCKING \in BOOLEAN
    /\ \E file \in StoreFiles :
         /\ inodes = IF file = "missing" THEN <<>>
                     ELSE << <<InitialContent(file), InitialContent(file)>> >>
         /\ dirent = IF file = "missing" THEN 0 ELSE 1
         /\ order = IF file = "missing" THEN <<>> ELSE <<InitialContent(file)>>
    /\ lockHolder = 0
    /\ procs = [p \in Procs |-> IdleProc]
    /\ rows = <<>>
    /\ committed = 0
    /\ nextVersion = 1
    /\ LifeIdle
    /\ PureIdle

At(p, pc) == procs[p].pc = pc

\* with_json_lock: entering takes the exclusive lock where the host has one
LockFree == LOCKING => lockHolder = 0

Acquire(p) == lockHolder' = IF LOCKING THEN p ELSE lockHolder

Release(p) == lockHolder' = IF LOCKING THEN 0 ELSE lockHolder

\* tempfile.mkstemp: a new file, hence a new inode, in the topic's directory
mkstemp_target == IF dirent # 0 THEN dirent ELSE Len(inodes) + 1

mkstemp == Len(inodes) + 1

\* json.load on what the reads returned
Decodable(buf) == Len(buf) = 2 /\ buf[1] = buf[2]

json_load(buf) ==
    IF Decodable(buf) THEN [kind |-> "content", content |-> buf[1]]
    ELSE [kind |-> "decode_error", content |-> Placeholder]

\* a worker starts saving a new version of the topic
SaveBegin(p) ==
    /\ At(p, "idle")
    /\ nextVersion <= MaxVersion
    /\ \E empty \in BOOLEAN :
         procs' = [procs EXCEPT ![p] =
                     [IdleProc EXCEPT !.pc = IF DB_ENABLED THEN "tx" ELSE "s_lock",
                                      !.content = Content(nextVersion, empty)]]
    /\ nextVersion' = nextVersion + 1
    /\ UNCHANGED <<inodes, dirent, lockHolder, rows, order, committed, LOCKING>>

\* save_tasks, relational backend: delete every row, insert the list, commit
SaveTransaction(p) ==
    /\ At(p, "tx")
    /\ rows' = IF procs[p].content.empty THEN <<>> ELSE <<procs[p].content>>
    /\ order' = Append(order, procs[p].content)
    /\ committed' = Len(order')
    /\ procs' = [procs EXCEPT ![p].pc = "idle"]
    /\ UNCHANGED <<inodes, dirent, lockHolder, nextVersion, LOCKING>>

SaveLock(p) ==
    /\ At(p, "s_lock")
    /\ LockFree
    /\ Acquire(p)
    /\ procs' = [procs EXCEPT ![p].pc = "s_mkstemp"]
    /\ UNCHANGED <<inodes, dirent, rows, order, committed, nextVersion, LOCKING>>

SaveMkstemp(p) ==
    /\ At(p, "s_mkstemp")
    /\ LET t == mkstemp IN
         /\ inodes' = IF t > Len(inodes) THEN Append(inodes, <<>>)
                      ELSE [inodes EXCEPT ![t] = <<>>]
         /\ procs' = [procs EXCEPT ![p].pc = "s_dump", ![p].tmp = t]
    /\ UNCHANGED <<dirent, lockHolder, rows, order, committed, nextVersion, LOCKING>>

\* json.dump: the first part of the document reaches the temporary file
SaveDump(p) ==
    /\ At(p, "s_dump")
    /\ inodes' = [inodes EXCEPT ![procs[p].tmp] = <<procs[p].content>>]
    /\ procs' = [procs EXCEPT ![p].pc = "s_flush"]
    /\ UNCHANGED <<dirent, lockHolder, rows, order, committed, nextVersion, LOCKING>>

\* f.flush: the rest of the document reaches the temporary file
SaveFlush(p) ==
    /\ At(p, "s_flush")
    /\ inodes' = [inodes EXCEPT ![procs[p].tmp] = Append(@, procs[p].content)]
    /\ procs' = [procs EXCEPT ![p].pc = "s_fsync"]
    /\ UNCHANGED <<dirent, lockHolder, rows, order, committed, nextVersion, LOCKING>>

SaveFsync(p) ==
    /\ At(p, "s_fsync")
    /\ procs' = [procs EXCEPT ![p].pc = "s_replace"]
    /\ UNCHANGED <<inodes, dirent, lockHolder, rows, order, committed,
                   nextVersion, LOCKING>>

\* os.replace(tmp, path): the path names the temporary file's inode
SaveReplace(p) ==
    /\ At(p, "s_replace")
    /\ dirent' = procs[p].tmp
    /\ order' = Append(order, procs[p].content)
    /\ procs' = [procs EXCEPT ![p].pc = "s_unlock", ![p].pos = Len(order')]
    /\ UNCHANGED <<inodes, lockHolder, rows, committed, nextVersion, LOCKING>>

\* finally: os.remove(tmp) fails and is ignored; the lock is released and
\* the save returns (to load_json when it was persisting its default)
SaveUnlock(p) ==
    /\ At(p, "s_unlock")
    /\ Release(p)
    /\ IF procs[p].forLoad
       THEN /\ procs' = [procs EXCEPT ![p].pc = "idle",
                           ![p].result = [kind |-> "default",
                                          content |-> procs[p].content]]
            /\ UNCHANGED committed
       ELSE /\ procs' = [procs EXCEPT ![p].pc = "idle"]
            /\ committed' = IF procs[p].pos > committed THEN procs[p].pos
                            ELSE committed
    /\ UNCHANGED <<inodes, dirent, rows, order, nextVersion, LOCKING>>

\* a worker starts loading the topic; seen records which saves had returned
LoadBegin(p) ==
    /\ At(p, "idle")
    /\ procs' = [procs EXCEPT ![p] =
                   [IdleProc EXCEPT !.pc = IF DB_ENABLED THEN "query" ELSE "l_lock",
                                    !.seen = committed]]
    /\ UNCHANGED <<inodes, dirent, lockHolder, rows, order, committed,
                   nextVersion, LOCKING>>

\* load_tasks, relational backend: the rows, or the flat file when none
LoadQuery(p) ==
    /\ At(p, "query")
    /\ procs' = IF rows # <<>>
                THEN [procs EXCEPT ![p].pc = "idle",
                        ![p].result = [kind |-> "content", content |-> rows[1]]]
                ELSE [procs EXCEPT ![p].pc = "l_lock"]
    /\ UNCHANGED <<inodes, dirent, lockHolder, rows, order, committed,
                   nextVersion, LOCKING>>

LoadLock(p) ==
    /\ At(p, "l_lock")
    /\ LockFree
    /\ Acquire(p)
    /\ procs' = [procs EXCEPT ![p].pc = "l_open"]
    /\ UNCHANGED <<inodes, dirent, rows, order, committed, nextVersion, LOCKING>>

\* open(path): FileNotFoundError leaves the with block, which unlocks
LoadOpen(p) ==
    /\ At(p, "l_open")
    /\ IF dirent = 0
       THEN /\ procs' = [procs EXCEPT ![p].pc = "l_missing"]
            /\ Release(p)
       ELSE /\ procs' = [procs EXCEPT ![p].pc = "l_read", ![p].fd = dirent]
            /\ UNCHANGED lockHolder
    /\ UNCHANGED <<inodes, dirent, rows, order, committed, nextVersion, LOCKING>>

\* except FileNotFoundError: save_json_atomic(path, default)
LoadMissing(p) ==
    /\ At(p, "l_missing")
    /\ nextVersion <= MaxVersion + MaxProcs
    /\ procs' = [procs EXCEPT ![p].pc = "s_lock", ![p].forLoad = TRUE,
                              ![p].content = Content(nextVersion, TRUE)]
    /\ nextVersion' = nextVersion + 1
    /\ UNCHANGED <<inodes, dirent, lockHolder, rows, order, committed, LOCKING>>

LoadRead(p) ==
    /\ At(p, "l_read")
    /\ LET data == inodes[procs[p].fd] IN
         procs' = [procs EXCEPT ![p].pc = "l_rest",
                     ![p].buf = IF Len(data) >= 1 THEN <<data[1]>> ELSE <<>>]
    /\ UNCHANGED <<inodes, dirent, lockHolder, rows, order, committed,
                   nextVersion, LOCKING>>

LoadReadRest(p) ==
    /\ At(p, "l_rest")
    /\ LET data == inodes[procs[p].fd] IN
         procs' = [procs EXCEPT ![p].pc = "l_return",
                     ![p].buf = IF Len(data) >= 2 THEN Append(@, data[2]) ELSE @]
    /\ UNCHANGED <<inodes, dirent, lockHolder, rows, order, committed,
                   nextVersion, LOCKING>>

\* the with block ends (unlock) and load_json returns what json.load gave,
\* or its default on JSONDecodeError
LoadReturn(p) ==
    /\ At(p, "l_return")
    /\ Release(p)
    /\ procs' = [procs EXCEPT ![p].pc = "idle",
                              ![p].result = json_load(procs[p].buf)]
    /\ UNCHANGED <<inodes, dirent, rows, order, committed, nextVersion, LOCKING>>

NextStore ==
    \/ \E p \in Procs : SaveBegin(p) /\ UNCHANGED <<lifeVars, pureVars>>
    \/ \E p \in Procs : SaveTransaction(p) /\ UNCHANGED <<lifeVars, pureVars>>
    \/ \E p \in Procs : SaveLock(p) /\ UNCHANGED <<lifeVars, pureVars>>
    \/ \E p \in Procs : SaveMkstemp(p) /\ UNCHANGED <<lifeVars, pureVars>>
    \/ \E p \in Procs : SaveDump(p) /\ UNCHANGED <<lifeVars, pureVars>>
    \/ \E p \in Procs : SaveFlush(p) /\ UNCHANGED <<lifeVars, pureVars>>
    \/ \E p \in Procs : SaveFsync(p) /\ UNCHANGED <<lifeVars, pureVars>>
    \/ \E p \in Procs : SaveReplace(p) /\ UNCHANGED <<lifeVars, pureVars>>
    \/ \E p \in Procs : SaveUnlock(p) /\ UNCHANGED <<lifeVars, pureVars>>
    \/ \E p \in Procs : LoadBegin(p) /\ UNCHANGED <<lifeVars, pureVars>>
    \/ \E p \in Procs : LoadQuery(p) /\ UNCHANGED <<lifeVars, pureVars>>
    \/ \E p \in Procs : LoadLock(p) /\ UNCHANGED <<lifeVars, pureVars>>
    \/ \E p \in Procs : LoadOpen(p) /\ UNCHANGED <<lifeVars, pureVars>>
    \/ \E p \in Procs : LoadMissing(p) /\ UNCHANGED <<lifeVars, pureVars>>
    \/ \E p \in Procs : LoadRead(p) /\ UNCHANGED <<lifeVars, pureVars>>
    \/ \E p \in Procs : LoadReadRest(p) /\ UNCHANGED <<lifeVars, pureVars>>
    \/ \E p \in Procs : LoadReturn(p) /\ UNCHANGED <<lifeVars, pureVars>>

SpecStore == InitStore /\ [][NextStore]_vars

Loaded(p) == procs[p].result.kind # "none"

InOrder(content) == \E i \in 1..Len(order) : order[i] = content

\* C8: the path always names a complete document written by one save (or the
\* initial content), and every finished load returned such a document (or
\* the default it persisted because the file was missing): no load ever
\* read partial or corrupt content, whatever the interleaving.
C8_AtomicSaveLoad ==
    /\ dirent # 0 => Decodable(inodes[dirent]) /\ InOrder(inodes[dirent][1])
    /\ \A p \in Procs :
         /\ procs[p].result.kind # "decode_error"
         /\ At(p, "l_return") => Decodable(procs[p].buf)
         /\ Loaded(p) => InOrder(procs[p].result.content)

C8_Witness ==
    \E p, q \in Procs :
        /\ ~LOCKING /\ ~DB_ENABLED
        /\ procs[p].result.kind = "content"
        /\ procs[p].result.content.ver = 1
        /\ At(q, "s_flush") /\ procs[q].content.ver = 2

SameContent(a, b) == a = b \/ (a.empty /\ b.empty)

\* C10: a load that started after a save returned gives that save's content
\* or the content of a later save, never an earlier version; the empty list
\* under the relational backend included.
C10_ReadAfterWrite ==
    \A p \in Procs :
        Loaded(p) =>
            \E i \in 1..Len(order) :
                /\ i >= procs[p].seen
                /\ SameContent(order[i], procs[p].result.content)

(***************************************************************************)
(* award_badges_for_user called twice in a row on the same task data.      *)
(***************************************************************************)
\* a task as toggle leaves it once `user` completed it on 2024-01-`day`
DoneTask(user, day) ==
    [LegacyTask EXCEPT !.text = "done", !.assigned_to = "", !.recurring = "",
                       !.due_date = <<>>, !.done = TRUE,
                       !.completed_at = <<2024, 1, day, 9, 0>>,
                       !.completed_by = user]

\* one completion a day, 2024-01-24 .. 2024-01-30
WeekOf(user) == Tuple([i \in 1..7 |-> DoneTask(user, 23 + i)], 7)

Link(username, badge_slug) ==
    [username |-> username, badge_slug |-> badge_slug, earned_at |-> <<2024, 1, 2, 8, 30>>]

AwardUsers == {"", "liz", " NICK ", "steven"}

AwardTaskLists ==
    { <<>>, <<LegacyTask>>, <<DoneTask("nick", 30)>>, WeekOf("liz"),
      WeekOf("nick") \o <<DoneTask("liz", 30)>>,
      <<DoneTask("liz", 28), DoneTask("liz", 30), DoneTask("nick", 29)>> }

AwardCollections ==
    { <<>>, <<Link("liz", BADGE_SLUG_FIRST_STEP)>>,
      <<Link("nick", BADGE_SLUG_FIRST_STEP), Link("liz", BADGE_SLUG_FIRST_STEP)>>,
      <<Link("liz", BADGE_SLUG_WEEKLY_WARRIOR)>> }

\* the list award_badges_for_user returns: the badges it stored
NewlyAwarded(ub, username, task_list) ==
    LET after == award_badges_for_user(ub, username, task_list)
    IN  SubSeq(after, Len(ub) + 1, Len(after))

InitAward ==
    /\ pin \in [username : AwardUsers, tasks : AwardTaskLists]
    /\ pout = Pending
    /\ DB_ENABLED \in BOOLEAN
    /\ userBadges \in AwardCollections
    /\ tasksFile = <<>>
    /\ taskRows = <<>>
    /\ now = StartClock
    /\ ticks = 0
    /\ reqs = 0
    /\ last = NoRequest
    /\ StoreIdle

AwardFirst ==
    /\ reqs = 0
    /\ userBadges' = award_badges_for_user(userBadges, pin.username, pin.tasks)
    /\ pout' = [done |-> FALSE, value |-> userBadges']
    /\ reqs' = 1
    /\ UNCHANGED <<DB_ENABLED, tasksFile, taskRows, now, ticks, last, pin>>

AwardAgain ==
    /\ reqs = 1
    /\ userBadges' = award_badges_for_user(userBadges, pin.username, pin.tasks)
    /\ pout' = [done |-> TRUE,
                value |-> [first |-> pout.value,
                           newly |-> NewlyAwarded(userBadges, pin.username, pin.tasks)]]
    /\ reqs' = 2
    /\ UNCHANGED <<DB_ENABLED, tasksFile, taskRows, now, ticks, last, pin>>

NextAward ==
    \/ AwardFirst /\ UNCHANGED storeVars
    \/ AwardAgain /\ UNCHANGED storeVars

SpecAward == InitAward /\ [][NextAward]_vars

\* C11: award_badges_for_user is idempotent: after a second call on the same
\* task data the UserBadge collection is what the first call left, and the
\* second call reports no newly awarded badge.
C11_AwardIdempotent ==
    pout.done => /\ userBadges = pout.value.first
                 /\ pout.value.newly = <<>>

\* the first call awarded two badges at once, the second none
C11_Witness ==
    /\ pout.done
    /\ pin.username = "liz"
    /\ Len(userBadges) = 2
    /\ EarnedSlugs(userBadges, "liz") = {BADGE_SLUG_FIRST_STEP, BADGE_SLUG_WEEKLY_WARRIOR}
    /\ pout.value.newly = <<>>

(***************************************************************************)
(* Concurrent toggles with their awards: each worker process handles one   *)
(* POST /toggle at a time, one store access per step.  Loads and saves of  *)
(* a topic are atomic; what lies between them is not.                      *)
(***************************************************************************)
IdleWorker == [pc |-> "idle", user |-> "", task_id |-> 0, ts |-> <<>>,
               targets |-> <<>>, records |-> <<>>]

OpenTask(assignee) ==
    [LegacyTask EXCEPT !.text = "open", !.assigned_to = "", !.recurring = "",
                       !.due_date = <<>>, !.assigned_username = assignee]

\* liz completed one task a day from 2024-01-24 to 2024-01-29; one task of
\* hers and one of nick's are open
BadgeTasks ==
    Tuple([i \in 1..6 |-> DoneTask("liz", 23 + i)], 6) \o <<OpenTask("liz"), OpenTask("nick")>>

BadgeTaskIds == {6, 7}

BadgeUsers == {"liz", "nick"}

InitBadge ==
    /\ DB_ENABLED \in BOOLEAN
    /\ tasksFile = BadgeTasks
    /\ taskRows = <<>>
    /\ userBadges = <<Link("liz", BADGE_SLUG_FIRST_STEP)>>
    /\ now = StartClock
    /\ ticks = 0
    /\ reqs = 0
    /\ last = NoRequest
    /\ PureIdle
    /\ inodes = <<>>
    /\ dirent = 0
    /\ lockHolder = 0
    /\ procs = [p \in Procs |-> IdleWorker]
    /\ rows = <<>>
    /\ order = <<>>
    /\ committed = 0
    /\ nextVersion = 0
    /\ LOCKING = FALSE

HasLink(ub, uname, badge_slug) ==
    \E i \in 1..Len(ub) : Norm(ub[i].username) = uname /\ ub[i].badge_slug = badge_slug

\* toggle: users = load_users(); ts = load_tasks()
ToggleLoad(p) ==
    /\ At(p, "idle")
    /\ \E u \in BadgeUsers, id \in BadgeTaskIds :
         procs' = [procs EXCEPT ![p] =
                     [IdleWorker EXCEPT !.pc = "apply", !.user = u, !.task_id = id,
                                        !.ts = load_tasks]]
    /\ UNCHANGED <<tasksFile, taskRows, userBadges>>

\* toggle: the in-memory change, then the head of award_badges_for_user,
\* which reads the user's badges
ToggleApply(p) ==
    /\ At(p, "apply")
    /\ LET w   == procs[p]
           ok  == InRange(w.task_id, w.ts) /\ Authorized(w.ts[w.task_id + 1], w.user)
           ts2 == IF ok THEN ToggledTasks(w.ts, w.task_id, w.user) ELSE w.ts
           targets == IF ok /\ ts2[w.task_id + 1].done
                      THEN award_targets(userBadges, Norm(w.user), ts2) ELSE <<>>
       IN  procs' = [procs EXCEPT ![p].ts = ts2, ![p].targets = targets,
                                  ![p].pc = IF targets = <<>> THEN "save" ELSE "store"]
    /\ UNCHANGED <<tasksFile, taskRows, userBadges>>

\* store_user_badge: load_user_badges_json(), or the query for an existing link
StoreLoad(p) ==
    /\ At(p, "store")
    /\ procs' = [procs EXCEPT ![p].records = userBadges, ![p].pc = "write"]
    /\ UNCHANGED <<tasksFile, taskRows, userBadges>>

\* store_user_badge: save_user_badges_json(records), or the insert of the
\* link, which the unique constraint uq_user_badge refuses for an existing
\* pair (the request then fails)
StoreSave(p) ==
    /\ At(p, "write")
    /\ LET w    == procs[p]
           slug == Head(w.targets)
           new  == store_user_badge(w.records, w.user, slug)
           rest == Tail(w.targets)
           next == [w EXCEPT !.targets = rest, !.records = <<>>,
                             !.pc = IF rest = <<>> THEN "save" ELSE "store"]
       IN  IF new = w.records
           THEN /\ procs' = [procs EXCEPT ![p] = next]
                /\ UNCHANGED userBadges
           ELSE IF ~DB_ENABLED
           THEN /\ userBadges' = new
                /\ procs' = [procs EXCEPT ![p] = next]
           ELSE IF HasLink(userBadges, Norm(w.user), slug)
           THEN /\ procs' = [procs EXCEPT ![p] = IdleWorker]
                /\ UNCHANGED userBadges
           ELSE /\ userBadges' = Append(userBadges, new[Len(new)])
                /\ procs' = [procs EXCEPT ![p] = next]
    /\ UNCHANGED <<tasksFile, taskRows>>

\* toggle: save_tasks(ts)
ToggleSave(p) ==
    /\ At(p, "save")
    /\ save_tasks(procs[p].ts)
    /\ procs' = [procs EXCEPT ![p] = IdleWorker]
    /\ UNCHANGED userBadges

BadgeFrame ==
    UNCHANGED <<DB_ENABLED, now, ticks, reqs, last, pureVars, inodes, dirent,
                lockHolder, rows, order, committed, nextVersion, LOCKING>>

NextBadge ==
    \/ \E p \in Procs : ToggleLoad(p) /\ BadgeFrame
    \/ \E p \in Procs : ToggleApply(p) /\ BadgeFrame
    \/ \E p \in Procs : StoreLoad(p) /\ BadgeFrame
    \/ \E p \in Procs : StoreSave(p) /\ BadgeFrame
    \/ \E p \in Procs : ToggleSave(p) /\ BadgeFrame

SpecBadge == InitBadge /\ [][NextBadge]_vars

\* C12: whatever the interleaving of awards by concurrent processes, under
\* either backend, the UserBadge collection holds at most one link per
\* (username, badge slug) pair.
C12_UniquePair ==
    \A i, j \in 1..Len(userBadges) :
        (/\ Norm(userBadges[i].username) = Norm(userBadges[j].username)
         /\ userBadges[i].badge_slug = userBadges[j].badge_slug) => i = j

\* the link exists while another worker, which read the badges before it
\* was stored, is about to store the same pair
C12_Witness ==
    \E p \in Procs :
        /\ At(p, "write")
        /\ ~HasLink(procs[p].records, Norm(procs[p].user), Head(procs[p].targets))
        /\ HasLink(userBadges, Norm(procs[p].user), Head(procs[p].targets))

\* C13: UserBadge is append-only: a link that exists is present, unchanged,
\* in every later state, under any interleaving of toggles and awards.
C13_AppendOnly ==
    [][ \A i \in 1..Len(userBadges) :
           \E j \in 1..Len(userBadges') : userBadges'[j] = userBadges[i] ]_vars

(***************************************************************************)
(* get_user_completion_stats on given task lists and a given "today".      *)
(***************************************************************************)
StatsWindow == 7

StatsFirstDay == MkDate(2023, 12, 30)

\* 2023-12-30 .. 2024-01-05: the window the completion dates are drawn from
StatsDays == { AddDays(StatsFirstDay, k) : k \in 0..(StatsWindow - 1) }

DoneAt(user, d) ==
    [DoneTask(user, 1) EXCEPT !.completed_at = <<d.year, d.month, d.day, 9, 0>>]

RECURSIVE LatestFirst(_, _)
\* one task completed by `user` per day of S, latest day first
LatestFirst(user, S) ==
    IF S = {} THEN <<>>
    ELSE LET m == CHOOSE d \in S : \A e \in S : e = d \/ DateLess(e, d)
         IN  <<DoneAt(user, m)>> \o LatestFirst(user, S \ {m})

\* liz's completions on the days of S (the latest twice), one completion of
\* nick, one open task of liz
StreakTasks(S) ==
    LET mine == LatestFirst("liz", S)
    IN  (IF mine = <<>> THEN <<>> ELSE <<Head(mine)>>) \o mine
        \o <<DoneAt("nick", AddDays(StatsFirstDay, 3)), OpenTask("liz")>>

\* tasks by who completed them and whom they are assigned to
AttributionTasks ==
    { [OpenTask(assignee) EXCEPT !.done = done,
                                 !.completed_at = IF done THEN RTCompletedAt ELSE <<>>,
                                 !.completed_by = IF done THEN by ELSE ""] :
        assignee \in {"", "liz", "nick"}, by \in {"", "liz", "nick"}, done \in BOOLEAN }

InitStats ==
    /\ \/ \E S \in SUBSET StatsDays :
             pin = [kind |-> "streak", username |-> "liz", tasks |-> StreakTasks(S), days |-> S]
       \/ \E l \in ListsUpTo(AttributionTasks, MaxTasks), u \in {"liz", " NICK ", ""} :
             pin = [kind |-> "attribution", username |-> u, tasks |-> l, days |-> {}]
    /\ pout = Pending
    /\ \E d \in StatsDays \cup {AddDays(StatsFirstDay, StatsWindow)} : now = MkDT(d, 10, 0, 0)
    /\ DB_ENABLED = FALSE
    /\ tasksFile = <<>>
    /\ taskRows = <<>>
    /\ userBadges = <<>>
    /\ ticks = 0
    /\ reqs = 0
    /\ last = NoRequest
    /\ StoreIdle

StatsApply ==
    /\ ~pout.done
    /\ pout' = [done |-> TRUE, value |-> get_user_completion_stats(pin.username, pin.tasks)]
    /\ UNCHANGED <<pin, lifeVars, storeVars>>

NextStats == StatsApply

SpecStats == InitStats /\ [][NextStats]_vars

\* the days of S form a run of n calendar-consecutive days starting at d
RunFrom(S, d, n) ==
    \A k \in 0..(n - 1) : \E e \in S : Ordinal(e) = Ordinal(d) + k

\* C14: longest_streak is the length of the longest run of
\* calendar-consecutive days among the user's distinct completion dates, 0
\* when there are none; for {01-01, 01-02, 01-03, 01-05} it is 3.
C14_LongestStreak ==
    (pout.done /\ pin.kind = "streak") =>
        LET S == pin.days
            n == pout.value.longest_streak
        IN  /\ n \in 0..Cardinality(S)
            /\ (S = {}) <=> (n = 0)
            /\ n > 0 => \E d \in S : RunFrom(S, d, n)
            /\ \A d \in S : ~RunFrom(S, d, n + 1)
            /\ S = {MkDate(2024, 1, 1), MkDate(2024, 1, 2), MkDate(2024, 1, 3), MkDate(2024, 1, 5)}
                 => n = 3

C14_Witness ==
    /\ pout.done
    /\ pin.days = {MkDate(2024, 1, 1), MkDate(2024, 1, 2), MkDate(2024, 1, 3), MkDate(2024, 1, 5)}
    /\ pout.value.longest_streak = 3

\* C15: current_streak is the number of consecutive days today, today-1, ...
\* that are all completion dates of the user, 0 when today is not one; for
\* {01-01, 01-02, 01-03, 01-05} it is 3 on 01-03 and 0 on 01-06.
C15_CurrentStreak ==
    (pout.done /\ pin.kind = "streak") =>
        LET S == pin.days
            n == pout.value.current_streak
            Back(k) == \E e \in S : Ordinal(e) = Ordinal(Today) - k
        IN  /\ n \in 0..Cardinality(S)
            /\ \A k \in 0..(n - 1) : Back(k)
            /\ ~Back(n)
            /\ Today \notin S => n = 0
            /\ S = {MkDate(2024, 1, 1), MkDate(2024, 1, 2), MkDate(2024, 1, 3), MkDate(2024, 1, 5)}
                 => /\ Today = MkDate(2024, 1, 3) => n = 3
                    /\ Today = MkDate(2024, 1, 6) => n = 0

C15_Witness ==
    /\ pout.done
    /\ pin.days = {MkDate(2024, 1, 1), MkDate(2024, 1, 2), MkDate(2024, 1, 3), MkDate(2024, 1, 5)}
    /\ Today = MkDate(2024, 1, 3)
    /\ pout.value.current_streak = 3
    /\ pout.value.longest_streak = 3

\* C16: completed_count for U is the number of done tasks attributed to U,
\* a task being attributed to its completed_by user and, only when that is
\* absent, to its assigned_username.
C16_CompletedCount ==
    pout.done =>
        LET U == Norm(pin.username)
            Counted(t) == /\ t.done
                          /\ IF Norm(t.completed_by) # "" THEN Norm(t.completed_by) = U
                             ELSE t.assigned_username # "" /\ Norm(t.assigned_username) = U
        IN  pout.value.completed_count =
              IF U = "" THEN 0
              ELSE Cardinality({ i \in 1..Len(pin.tasks) : Counted(pin.tasks[i]) })

\* nick's count: one task he completed although assigned to liz, one
\* assigned to him without completed_by
C16_Witness ==
    /\ pout.done /\ pin.username = " NICK " /\ Len(pin.tasks) = 2
    /\ pin.tasks[1].done /\ pin.tasks[1].completed_by = "nick"
    /\ pin.tasks[1].assigned_username = "liz"
    /\ pin.tasks[2].done /\ pin.tasks[2].completed_by = ""
    /\ pin.tasks[2].assigned_username = "nick"
    /\ pout.value.completed_count = 2

(***************************************************************************)
(* Notification preferences: what is stored under a user's "notifications" *)
(* key, the settings form, and the two resolvers.  A stored number is      *)
(* [kind "int"], a key that is missing [kind "absent"], a JSON null        *)
(* [kind "null"], a text that is not a number [kind "text"].               *)
(***************************************************************************)
Num(n) == [kind |-> "int", v |-> n]

Absent == [kind |-> "absent", v |-> 0]

Null == [kind |-> "null", v |-> 0]

NotANumber == [kind |-> "text", v |-> 0]

\* notifications/config.py
DefaultDailyHour == 7

DefaultWeeklyDay == 0

LastHour == 23

LastWeekday == 6

DEFAULT_NOTIFICATION_PREFS ==
    [frequency |-> "daily", channels |-> <<"email">>,
     daily_hour |-> DefaultDailyHour, weekly_day |-> DefaultWeeklyDay]

VALID_CHANNELS == {"email", "discord"}

VALID_FREQUENCIES == {"daily", "weekly", "off"}

\* str.lower() on the frequency texts of the model
Lower(s) ==
    CASE s = "Daily" -> "daily"
      [] s = "OFF"   -> "off"
      [] OTHER       -> s

\* max(lo, min(hi, n))
Clamp(lo, hi, n) == IF n < lo THEN lo ELSE IF n > hi THEN hi ELSE n

\* try: max(lo, min(hi, int(settings.get(key, default)))) except: default
ResolveNumber(value, lo, hi, default) ==
    IF value.kind = "absent" THEN Clamp(lo, hi, default)
    ELSE IF value.kind = "int" THEN Clamp(lo, hi, value.v)
    ELSE default

RECURSIVE KeepValid(_, _)
\* the loop of normalize_notification_channels
KeepValid(channels, normalized) ==
    IF channels = <<>> THEN normalized
    ELSE LET slug == StripLower(Head(channels))
             keep == /\ Head(channels) # ""
                     /\ slug \in VALID_CHANNELS
                     /\ \A i \in 1..Len(normalized) : normalized[i] # slug
         IN  KeepValid(Tail(channels), IF keep THEN Append(normalized, slug) ELSE normalized)

normalize_notification_channels(channels) ==
    IF channels = <<>> THEN DEFAULT_NOTIFICATION_PREFS.channels
    ELSE LET normalized == KeepValid(channels, <<>>)
         IN  IF normalized = <<>> THEN DEFAULT_NOTIFICATION_PREFS.channels ELSE normalized

\* load_notification_settings_for, on the user's stored "notifications"
load_notification_settings_for(stored) ==
    [ frequency  |-> IF stored.frequency = "" THEN DEFAULT_NOTIFICATION_PREFS.frequency
                     ELSE Lower(stored.frequency),
      channels   |-> normalize_notification_channels(stored.channels),
      daily_hour |-> ResolveNumber(stored.daily_hour, 0, LastHour, DefaultDailyHour),
      weekly_day |-> ResolveNumber(stored.weekly_day, 0, LastWeekday, DefaultWeeklyDay) ]

\* load_notification_preferences (the scheduler), on the same stored value;
\* int() of a null or of a text that is no number raises
load_notification_preferences(stored) ==
    LET Number(value, default) == IF value.kind = "int" THEN value.v ELSE default
        raises == \E value \in {stored.daily_hour, stored.weekly_day} :
                      value.kind \in {"null", "text"}
    IN  IF raises
        THEN [raised |-> TRUE, frequency |-> "", channels |-> <<>>,
              daily_hour |-> 0, weekly_day |-> 0]
        ELSE [raised     |-> FALSE,
              frequency  |-> IF stored.frequency = "" THEN DEFAULT_NOTIFICATION_PREFS.frequency
                             ELSE Lower(stored.frequency),
              channels   |-> IF stored.channels = <<>> THEN DEFAULT_NOTIFICATION_PREFS.channels
                             ELSE stored.channels,
              daily_hour |-> Number(stored.daily_hour, DefaultDailyHour),
              weekly_day |-> Number(stored.weekly_day, DefaultWeeklyDay)]

\* POST /settings/notifications: the settings persisted for the form
notifications_settings(stored, form) ==
    LET current == load_notification_settings_for(stored)
        freq    == Lower(IF form.frequency = "" THEN current.frequency ELSE form.frequency)
        Number(value, lo, hi, kept) ==
            IF value.kind = "absent" THEN Clamp(lo, hi, kept)
            ELSE IF value.kind = "int" THEN Clamp(lo, hi, value.v)
            ELSE kept
    IN  [ frequency  |-> IF freq \in VALID_FREQUENCIES THEN freq ELSE current.frequency,
          channels   |-> normalize_notification_channels(form.channels),
          daily_hour |-> Num(Number(form.daily_hour, 0, LastHour, current.daily_hour)),
          weekly_day |-> Num(Number(form.weekly_day, 0, LastWeekday, current.weekly_day)) ]

StoredFrequencies == {"", "daily", "weekly", "off", "Daily", "hourly"}

StoredChannels ==
    { <<>>, <<"email">>, <<"discord", "email">>, <<"sms">>, <<"sms", " Email ">>,
      <<"email", "email">> }

StoredHours == {Absent, Null, NotANumber, Num(-1), Num(0), Num(7), Num(23), Num(24), Num(37)}

StoredDays == {Absent, NotANumber, Num(-1), Num(0), Num(6), Num(7)}

StoredSettings ==
    [frequency : StoredFrequencies, channels : StoredChannels,
     daily_hour : StoredHours, weekly_day : StoredDays]

SettingsForms ==
    { [frequency |-> "weekly", channels |-> <<"discord">>, daily_hour |-> Num(37),
       weekly_day |-> Num(9)],
      [frequency |-> "hourly", channels |-> <<"sms">>, daily_hour |-> NotANumber,
       weekly_day |-> Num(3)] }

NoForm == [frequency |-> "", channels |-> <<>>, daily_hour |-> Absent, weekly_day |-> Absent]

InitNotif ==
    /\ pin \in [stored : StoredSettings, form : {NoForm}]
    /\ pout = Pending
    /\ DB_ENABLED = FALSE
    /\ LifeIdle
    /\ StoreIdle

\* the user submits the settings form
NotifSubmit ==
    /\ reqs = 0
    /\ ~pout.done
    /\ \E form \in SettingsForms :
         pin' = [stored |-> notifications_settings(pin.stored, form), form |-> form]
    /\ reqs' = 1
    /\ UNCHANGED <<pout, DB_ENABLED, tasksFile, taskRows, userBadges, now, ticks, last>>

\* the settings page and the scheduler resolve the stored preferences
NotifResolve ==
    /\ ~pout.done
    /\ pout' = [done |-> TRUE,
                value |-> [settings  |-> load_notification_settings_for(pin.stored),
                           scheduler |-> load_notification_preferences(pin.stored)]]
    /\ UNCHANGED <<pin, lifeVars>>

NextNotif ==
    \/ NotifSubmit /\ UNCHANGED storeVars
    \/ NotifResolve /\ UNCHANGED storeVars

SpecNotif == InitNotif /\ [][NextNotif]_vars

InDomain(prefs) ==
    /\ prefs.daily_hour \in 0..LastHour
    /\ prefs.weekly_day \in 0..LastWeekday
    /\ prefs.frequency \in VALID_FREQUENCIES
    /\ prefs.channels # <<>>
    /\ \A i \in 1..Len(prefs.channels) : prefs.channels[i] \in VALID_CHANNELS

\* C17: whatever is stored, the preferences resolved by the settings
\* resolver and by the scheduler have daily_hour in 0..23, weekly_day in
\* 0..6, a frequency among daily/weekly/off and a non-empty list of valid
\* channels.
C17_ResolvedInDomain ==
    pout.done => /\ InDomain(pout.value.settings)
                 /\ ~pout.value.scheduler.raised
                 /\ InDomain(pout.value.scheduler)

OutOfRange(value, lo, hi) == value.kind = "int" /\ value.v \notin lo..hi

\* C18: a stored or submitted value outside its domain is replaced by the
\* default: an out-of-range daily_hour resolves to 7, an out-of-range
\* weekly_day to 0 (Monday), an unrecognized channel is dropped, [email]
\* remaining when no valid channel is left.
C18_InvalidBecomesDefault ==
    pout.done =>
        LET r == pout.value.settings IN
        /\ (\/ OutOfRange(pin.stored.daily_hour, 0, LastHour)
            \/ OutOfRange(pin.form.daily_hour, 0, LastHour)) => r.daily_hour = DefaultDailyHour
        /\ (\/ OutOfRange(pin.stored.weekly_day, 0, LastWeekday)
            \/ OutOfRange(pin.form.weekly_day, 0, LastWeekday)) => r.weekly_day = DefaultWeeklyDay
        /\ \A i \in 1..Len(r.channels) : r.channels[i] \in VALID_CHANNELS
        /\ (\A i \in 1..Len(pin.stored.channels) :
               StripLower(pin.stored.channels[i]) \notin VALID_CHANNELS) => r.channels = <<"email">>

-----------------------------------------------------------------------------
\* Notification delivery: deliver_jobs over the jobs of one scheduler run,
\* dispatch over the messages and channels of one recipient.

MaxJobs == 2

JobUsers == <<"liz", "nick">>

NoAddress == ""
GoodAddress == "user@example.com"
\* an address stored with a line break in it: EmailMessage refuses it as a
\* header value
BrokenAddress == "user@example.com<CR><LF>bcc: eve@example.com"

HasLineBreak(address) == address = BrokenAddress

NoWebhook == ""
Webhook == "https://discord.example/hook"

\* what a send function does: returns True, returns False, or lets an
\* exception out
Sent == "sent"
NotSent == "not sent"
Raised == "raised"

send_email(recipient, message, env) ==
    IF recipient.email = NoAddress THEN NotSent
    ELSE IF env.NOTIFY_FROM_EMAIL = "" THEN NotSent
    ELSE IF HasLineBreak(recipient.email) THEN Raised
    ELSE IF env.smtp = "ok" THEN Sent
    ELSE NotSent

send_discord(recipient, message, env) ==
    LET webhook_url == IF recipient.discord_webhook # NoWebhook
                       THEN recipient.discord_webhook
                       ELSE env.DISCORD_WEBHOOK_URL
    IN  IF webhook_url = NoWebhook THEN NotSent
        ELSE IF env.discord = "ok" THEN Sent
        ELSE NotSent

Call(recipient, message, channel, outcome) ==
    [to |-> recipient.username, subject |-> message, channel |-> channel,
     outcome |-> outcome]

enabled_channels(recipient) ==
    IF recipient.channels # <<>>
    THEN {recipient.channels[i] : i \in 1..Len(recipient.channels)}
    ELSE {"email", "discord"}

\* dispatch from message i on; log is the list of send calls made so far
RECURSIVE dispatch_from(_, _, _, _, _)
dispatch_from(recipient, messages, i, env, log) ==
    IF i > Len(messages) THEN [raised |-> FALSE, log |-> log]
    ELSE
        LET channels == enabled_channels(recipient)
            viaEmail == send_email(recipient, messages[i], env)
            afterEmail ==
                IF "email" \in channels
                THEN Append(log, Call(recipient, messages[i], "email", viaEmail))
                ELSE log
            viaDiscord == send_discord(recipient, messages[i], env)
            afterDiscord ==
                IF "discord" \in channels
                THEN Append(afterEmail, Call(recipient, messages[i], "discord", viaDiscord))
                ELSE afterEmail
        IN  IF "email" \in channels /\ viaEmail = Raised
            THEN [raised |-> TRUE, log |-> afterEmail]
            ELSE dispatch_from(recipient, messages, i + 1, env, afterDiscord)

dispatch(recipient, messages, env) == dispatch_from(recipient, messages, 1, env, <<>>)

\* deliver_jobs from job j on.  run.delivered is the returned total;
\* run.dispatched lists the recipients dispatch was invoked for, run.counted
\* those whose iteration incremented the total, run.log the send calls.
RECURSIVE deliver_from(_, _, _, _)
deliver_from(jobs, j, env, run) ==
    IF j > Len(jobs) THEN run
    ELSE
        LET job == jobs[j]
            d == dispatch(job.recipient, job.messages, env)
        IN  IF job.messages = <<>>
            THEN deliver_from(jobs, j + 1, env, run)
            ELSE IF d.raised
            THEN deliver_from(jobs, j + 1, env,
                     [run EXCEPT !.dispatched = Append(@, job.recipient.username),
                                 !.log = @ \o d.log])
            ELSE deliver_from(jobs, j + 1, env,
                     [run EXCEPT !.delivered = @ + 1,
                                 !.dispatched = Append(@, job.recipient.username),
                                 !.counted = Append(@, job.recipient.username),
                                 !.log = @ \o d.log])

deliver_jobs(jobs, env) ==
    deliver_from(jobs, 1, env,
                 [delivered |-> 0, dispatched |-> <<>>, counted |-> <<>>, log |-> <<>>])

\* build_recipient: the channels of a job's recipient are never empty
RecipientChannels == {<<"email">>, <<"discord">>, <<"email", "discord">>}

Recipients(username) ==
    [username : {username},
     email : {NoAddress, GoodAddress, BrokenAddress},
     discord_webhook : {NoWebhook, Webhook},
     channels : RecipientChannels]

MessageLists == {<<>>, <<"summary">>, <<"summary", "badges">>}

JobsFor(username) == [recipient : Recipients(username), messages : MessageLists]

\* one job per user, as _merge_jobs and the collectors build them
JobLists ==
    UNION {{jobs \in [1..n -> UNION {JobsFor(JobUsers[i]) : i \in 1..n}] :
               \A i \in 1..n : jobs[i].recipient.username = JobUsers[i]} : n \in 0..MaxJobs}

DeliveryEnvs ==
    [NOTIFY_FROM_EMAIL : {"", "todo@example.com"},
     DISCORD_WEBHOOK_URL : {NoWebhook, Webhook},
     smtp : {"ok", "refused"},
     discord : {"ok", "error"}]

InitDeliver ==
    /\ pin \in [jobs : JobLists, env : DeliveryEnvs]
    /\ pout = Pending
    /\ DB_ENABLED = FALSE
    /\ LifeIdle
    /\ StoreIdle

\* one scheduler run: schedule_overdue_alerts or schedule_daily_summaries
\* hands its jobs to deliver_jobs
DeliverRun ==
    /\ ~pout.done
    /\ pout' = [done |-> TRUE, value |-> deliver_jobs(pin.jobs, pin.env)]
    /\ UNCHANGED <<pin, lifeVars, storeVars>>

NextDeliver == DeliverRun

SpecDeliver == InitDeliver /\ [][NextDeliver]_vars

Occurrences(s, x) == Cardinality({i \in 1..Len(s) : s[i] = x})

Called(run, username, subject, channel) ==
    \E i \in 1..Len(run.log) :
        /\ run.log[i].to = username
        /\ run.log[i].subject = subject
        /\ run.log[i].channel = channel

SucceededFor(run, username) ==
    \E i \in 1..Len(run.log) : run.log[i].to = username /\ run.log[i].outcome = Sent

RaisedFor(run, username) ==
    \E i \in 1..Len(run.log) : run.log[i].to = username /\ run.log[i].outcome = Raised

\* every job with a message has dispatch invoked on it exactly once, and a
\* job without messages never
C19_DispatchedOnce ==
    pout.done =>
        \A j \in 1..Len(pin.jobs) :
            Occurrences(pout.value.dispatched, pin.jobs[j].recipient.username)
                = IF pin.jobs[j].messages = <<>> THEN 0 ELSE 1

\* when a channel raises for one recipient, another recipient of the same
\* run whose own channel succeeds is still counted as delivered
C19_OtherRecipientDelivered ==
    pout.done =>
        \A a, b \in 1..Len(pin.jobs) :
            LET A == pin.jobs[a].recipient.username
                B == pin.jobs[b].recipient.username
            IN  (/\ RaisedFor(pout.value, A)
                 /\ SucceededFor(pout.value, B))
                => Occurrences(pout.value.counted, B) = 1

\* every message of every job is attempted on every channel enabled for its
\* recipient
C19_AllAttempted ==
    pout.done =>
        \A j \in 1..Len(pin.jobs) :
            \A m \in 1..Len(pin.jobs[j].messages) :
                \A channel \in enabled_channels(pin.jobs[j].recipient) :
                    Called(pout.value, pin.jobs[j].recipient.username,
                           pin.jobs[j].messages[m], channel)

\* C19: in one delivery run a failure or exception in one channel or for one
\* recipient never prevents the remaining channels, messages and recipients
\* from being attempted: every job with a message is dispatched exactly
\* once, every message is attempted on every enabled channel, and a
\* recipient whose own channel succeeds is counted as delivered although the
\* email channel raised for another one.
C19_FailureIsolated ==
    /\ C19_DispatchedOnce
    /\ C19_OtherRecipientDelivered
    /\ C19_AllAttempted

\* C20: a recipient's batch is counted in the delivered total if and only if
\* at least one channel enabled for the recipient reported success, and the
\* total is the number of such batches.
C20_DeliveredIffChannelSucceeded ==
    pout.done =>
        /\ \A j \in 1..Len(pin.jobs) :
               LET username == pin.jobs[j].recipient.username
               IN  Occurrences(pout.value.counted, username) = 1
                       <=> SucceededFor(pout.value, username)
        /\ pout.value.delivered =
               Cardinality({j \in 1..Len(pin.jobs) :
                               SucceededFor(pout.value, pin.jobs[j].recipient.username)})

-----------------------------------------------------------------------------
\* Notification collectors: one scheduler run reads the users, the tasks,
\* the earned badges and the resolved preferences, and builds the jobs.

MaxSchedTasks == 2

\* NotificationPreferences() with the dataclass defaults
NotificationPreferences ==
    [frequency |-> "daily", channels |-> <<>>, weekly_day |-> DefaultWeeklyDay,
     overdue_enabled |-> TRUE, badge_enabled |-> TRUE, summary_enabled |-> TRUE]

\* preferences.get(uname) or NotificationPreferences()
PrefsOf(preferences, uname) ==
    IF uname \in DOMAIN preferences THEN preferences[uname] ELSE NotificationPreferences

\* date.weekday(): Monday is 0
weekday(d) == (Ordinal(d) + (DaysPerWeek - 1)) % DaysPerWeek

RECURSIVE Concat(_, _)
\* f[1] \o ... \o f[n]
Concat(f, n) == IF n = 0 THEN <<>> ELSE Concat(f, n - 1) \o f[n]

visible_open_tasks_by_user(tasks, users, normalized) ==
    LET Mine(task) == ~task.done /\ task_visible_to(task, normalized, users)
    IN  SelectSeq(tasks, Mine)

format_task_line(task, due_date) ==
    [label |-> Or(task.text, "Task"), due |-> due_date,
     priority |-> Or(task.priority, "Medium")]

effective_channels(prefs) == IF prefs.channels # <<>> THEN prefs.channels ELSE <<"email">>

build_recipient(username, preferences, profile) ==
    [username |-> username, email |-> "", discord_webhook |-> "",
     channels |-> effective_channels(preferences)]

create_message(subject, body_lines, category) ==
    [subject |-> subject, body |-> body_lines, category |-> category]

\* the lines of the tasks of `mine` due before today (mode overdue) or today
RECURSIVE TaskLines(_, _, _)
TaskLines(mine, today, mode) ==
    IF mine = <<>> THEN <<>>
    ELSE LET task == Head(mine)
             due  == parse_date(Or(task.due_date, task.due))
             hit  == /\ due # NoDate
                     /\ IF mode = "overdue" THEN DateLess(due, today) ELSE due = today
         IN  (IF hit THEN <<format_task_line(task, due)>> ELSE <<>>)
             \o TaskLines(Tail(mine), today, mode)

\* one iteration of the loop of collect_overdue_jobs, without the preference test
OverdueJobFor_ignoring_prefs(user, tasks, users, preferences, today) ==
    LET uname == Lower(user.username)
        prefs == PrefsOf(preferences, uname)
        overdue_lines == TaskLines(visible_open_tasks_by_user(tasks, users, uname),
                                   today, "overdue")
    IN  IF uname = "" THEN <<>>
        ELSE IF overdue_lines = <<>> THEN <<>>
        ELSE <<[recipient |-> build_recipient(uname, prefs, user),
                messages  |-> <<create_message("Overdue tasks reminder",
                                               overdue_lines, "overdue")>>]>>

\* one iteration of the loop of collect_overdue_jobs: the jobs it appends
OverdueJobFor(user, tasks, users, preferences, today) ==
    LET uname == Lower(user.username)
        prefs == PrefsOf(preferences, uname)
        overdue_lines == TaskLines(visible_open_tasks_by_user(tasks, users, uname),
                                   today, "overdue")
    IN  IF uname = "" THEN <<>>
        ELSE IF prefs.frequency = "off" \/ ~prefs.overdue_enabled THEN <<>>
        ELSE IF overdue_lines = <<>> THEN <<>>
        ELSE <<[recipient |-> build_recipient(uname, prefs, user),
                messages  |-> <<create_message("Overdue tasks reminder",
                                               overdue_lines, "overdue")>>]>>

collect_overdue_jobs(today, preferences, users, tasks) ==
    Concat([i \in 1..Len(users) |-> OverdueJobFor(users[i], tasks, users, preferences, today)],
           Len(users))

should_send_summary_every_run(prefs, target_date) ==
    ~(prefs.frequency = "off" \/ ~prefs.summary_enabled)

should_send_summary(prefs, target_date) ==
    IF prefs.frequency = "off" \/ ~prefs.summary_enabled THEN FALSE
    ELSE IF prefs.frequency = "daily" THEN TRUE
    ELSE IF prefs.frequency = "weekly" THEN weekday(target_date) = prefs.weekly_day
    ELSE FALSE

\* one iteration of the loop of collect_daily_summary_jobs
SummaryJobFor(user, tasks, users, preferences, target_date) ==
    LET uname == Lower(user.username)
        prefs == PrefsOf(preferences, uname)
        due_today_lines == TaskLines(visible_open_tasks_by_user(tasks, users, uname),
                                     target_date, "today")
    IN  IF uname = "" THEN <<>>
        ELSE IF ~should_send_summary(prefs, target_date) THEN <<>>
        ELSE IF due_today_lines = <<>> THEN <<>>
        ELSE <<[recipient |-> build_recipient(uname, prefs, user),
                messages  |-> <<create_message("Today's task summary",
                                               due_today_lines, "daily")>>]>>

collect_daily_summary_jobs(target_date, preferences, users, tasks) ==
    Concat([i \in 1..Len(users) |->
               SummaryJobFor(users[i], tasks, users, preferences, target_date)],
           Len(users))

BADGE_PROGRESS_ORDER ==
    <<BADGE_SLUG_FIRST_STEP, BADGE_SLUG_TASK_MASTER, BADGE_SLUG_WEEKLY_WARRIOR>>

BADGE_PROGRESS_RULES(slug) ==
    CASE slug = BADGE_SLUG_FIRST_STEP     -> [metric |-> "completed_count", target |-> TargetFirstStep]
      [] slug = BADGE_SLUG_TASK_MASTER    -> [metric |-> "completed_count", target |-> TargetTaskMaster]
      [] slug = BADGE_SLUG_WEEKLY_WARRIOR -> [metric |-> "longest_streak", target |-> TargetWeeklyWarrior]

\* get_next_badge_progress returning None
NoProgress == [slug |-> "", current |-> 0, target |-> 0, remaining |-> 0]

\* the loop, were it to pass over a badge whose target is already met
RECURSIVE ProgressFrom_skipping_met(_, _, _)
ProgressFrom_skipping_met(i, stats, earned_slugs) ==
    IF i > Len(BADGE_PROGRESS_ORDER) THEN NoProgress
    ELSE LET slug == BADGE_PROGRESS_ORDER[i]
             rule == BADGE_PROGRESS_RULES(slug)
         IN  IF slug \in earned_slugs \/ stats[rule.metric] >= rule.target
             THEN ProgressFrom_skipping_met(i + 1, stats, earned_slugs)
             ELSE [slug |-> slug, current |-> stats[rule.metric], target |-> rule.target,
                   remaining |-> rule.target - stats[rule.metric]]

\* the loop of get_next_badge_progress from position i of the order
RECURSIVE ProgressFrom(_, _, _)
ProgressFrom(i, stats, earned_slugs) ==
    IF i > Len(BADGE_PROGRESS_ORDER) THEN NoProgress
    ELSE LET slug == BADGE_PROGRESS_ORDER[i] IN
         IF slug \in earned_slugs \/ slug \notin BadgeCatalog
         THEN ProgressFrom(i + 1, stats, earned_slugs)
         ELSE LET rule == BADGE_PROGRESS_RULES(slug)
                  metric_value == stats[rule.metric]
                  target == rule.target
              IN  [slug |-> slug, current |-> metric_value, target |-> target,
                   remaining |-> IF target <= 0 THEN 0
                                 ELSE IF target - metric_value > 0 THEN target - metric_value
                                 ELSE 0]

get_next_badge_progress(stats, earned_slugs) == ProgressFrom(1, stats, earned_slugs)

\* one iteration of the loop of collect_badge_progress_jobs
BadgeJobFor(user, tasks, ub, preferences) ==
    LET uname == Lower(user.username)
        prefs == PrefsOf(preferences, uname)
        stats == get_user_completion_stats(uname, tasks)
        progress == get_next_badge_progress(stats, EarnedSlugs(ub, uname))
    IN  IF uname = "" THEN <<>>
        ELSE IF prefs.frequency = "off" \/ ~prefs.badge_enabled THEN <<>>
        ELSE IF progress = NoProgress \/ progress.remaining = 0 THEN <<>>
        ELSE IF progress.remaining <= 0 THEN <<>>
        ELSE <<[recipient |-> build_recipient(uname, prefs, user),
                messages  |-> <<create_message("Badge progress",
                                               <<[badge |-> progress.slug,
                                                  remaining |-> progress.remaining]>>,
                                               "badge")>>]>>

collect_badge_progress_jobs(preferences, users, tasks, ub) ==
    Concat([i \in 1..Len(users) |-> BadgeJobFor(users[i], tasks, ub, preferences)],
           Len(users))

\* the position of the job of `key` in job_map, 0 when there is none
JobIndex(job_map, key) ==
    IF \E i \in 1..Len(job_map) : job_map[i].recipient.username = key
    THEN CHOOSE i \in 1..Len(job_map) : job_map[i].recipient.username = key
    ELSE 0

RECURSIVE FromPrimary(_, _)
\* {job.recipient.username: job for job in primary}
FromPrimary(primary, job_map) ==
    IF primary = <<>> THEN job_map
    ELSE LET job == Head(primary)
             at  == JobIndex(job_map, job.recipient.username)
         IN  FromPrimary(Tail(primary),
                         IF at = 0 THEN Append(job_map, job)
                         ELSE [job_map EXCEPT ![at] = job])

RECURSIVE MergeExtra(_, _, _)
\* the loop of _merge_jobs over extra
MergeExtra(extra, job_map, extend) ==
    IF extra = <<>> THEN job_map
    ELSE LET job == Head(extra)
             at  == JobIndex(job_map, job.recipient.username)
         IN  MergeExtra(Tail(extra),
                        IF at = 0 THEN Append(job_map, job)
                        ELSE IF extend
                        THEN [job_map EXCEPT ![at].messages = @ \o job.messages]
                        ELSE [job_map EXCEPT ![at] = job],
                        extend)

merge_jobs_replacing(primary, extra) == MergeExtra(extra, FromPrimary(primary, <<>>), FALSE)

merge_jobs(primary, extra) == MergeExtra(extra, FromPrimary(primary, <<>>), TRUE)

SchedDay(day) == MkDT(MkDate(2024, 1, day), 7, 0, 0)

\* Monday 2024-01-29 and Tuesday 2024-01-30
SchedClocks == {SchedDay(29), SchedDay(30)}

SchedTask(assignee, due_date, due, done) ==
    [OpenTask(assignee) EXCEPT !.due_date = due_date, !.due = due, !.done = done,
                               !.completed_by = IF done THEN assignee ELSE "",
                               !.completed_at = IF done THEN <<2024, 1, 28, 9, 0>> ELSE <<>>]

SchedTasks ==
    {SchedTask("liz", due_date, <<>>, FALSE) :
        due_date \in {<<>>, <<2024, 1, 28>>, <<2024, 1, 29>>, <<2024, 1, 30>>, <<2024, 2, 30>>}}
    \cup {SchedTask("liz", <<>>, <<2024, 1, 29>>, FALSE)}
    \cup {SchedTask("nick", due_date, <<>>, FALSE) : due_date \in {<<2024, 1, 28>>, <<2024, 1, 29>>}}
    \cup {SchedTask("liz", <<2024, 1, 28>>, <<>>, TRUE), SchedTask("nick", <<2024, 1, 29>>, <<>>, TRUE)}

SchedTaskLists == UNION {[1..n -> SchedTasks] : n \in 0..MaxSchedTasks}

SchedToggles ==
    {t \in [overdue_enabled : BOOLEAN, badge_enabled : BOOLEAN, summary_enabled : BOOLEAN] :
        Cardinality({k \in {"overdue_enabled", "badge_enabled", "summary_enabled"} : ~t[k]}) <= 1}

\* liz's resolved preferences; the other users have none stored
SchedPreferences ==
    {<<>>} \cup
    {[u \in {"liz"} |->
        [frequency |-> f, channels |-> <<"email">>, weekly_day |-> w,
         overdue_enabled |-> t.overdue_enabled, badge_enabled |-> t.badge_enabled,
         summary_enabled |-> t.summary_enabled]] :
        f \in VALID_FREQUENCIES, w \in {0, 1}, t \in SchedToggles}

SchedBadges ==
    { <<>>, <<Link("liz", BADGE_SLUG_FIRST_STEP)>>,
      <<Link("liz", BADGE_SLUG_FIRST_STEP), Link("liz", BADGE_SLUG_TASK_MASTER),
        Link("liz", BADGE_SLUG_WEEKLY_WARRIOR)>> }

InitSched ==
    /\ DB_ENABLED = FALSE
    /\ tasksFile \in SchedTaskLists
    /\ userBadges \in SchedBadges
    /\ now \in SchedClocks
    /\ pin \in SchedPreferences
    /\ pout = Pending
    /\ taskRows = <<>>
    /\ ticks = 0
    /\ reqs = 0
    /\ last = NoRequest
    /\ StoreIdle

\* schedule_overdue_alerts: the jobs handed to deliver_jobs
RunOverdueAlerts ==
    /\ ~pout.done
    /\ pout' = [done |-> TRUE,
                value |-> [task |-> "overdue",
                           jobs |-> collect_overdue_jobs(Today, pin, load_users, tasksFile),
                           summary_jobs |-> <<>>, badge_jobs |-> <<>>]]
    /\ UNCHANGED <<pin, lifeVars, storeVars>>

\* schedule_daily_summaries: the jobs handed to deliver_jobs
RunDailySummaries ==
    /\ ~pout.done
    /\ LET summary_jobs == collect_daily_summary_jobs(Today, pin, load_users, tasksFile)
           badge_jobs   == collect_badge_progress_jobs(pin, load_users, tasksFile, userBadges)
       IN  pout' = [done |-> TRUE,
                    value |-> [task |-> "summaries",
                               jobs |-> merge_jobs(summary_jobs, badge_jobs),
                               summary_jobs |-> summary_jobs, badge_jobs |-> badge_jobs]]
    /\ UNCHANGED <<pin, lifeVars, storeVars>>

NextSched ==
    \/ RunOverdueAlerts
    \/ RunDailySummaries

SpecSched == InitSched /\ [][NextSched]_vars

\* the number of jobs of `jobs` addressed to username
JobsTo(jobs, username) ==
    Cardinality({i \in 1..Len(jobs) : jobs[i].recipient.username = username})

RECURSIVE MessagesTo(_, _)
\* the messages of the jobs addressed to username, in order
MessagesTo(jobs, username) ==
    IF jobs = <<>> THEN <<>>
    ELSE (IF Head(jobs).recipient.username = username THEN Head(jobs).messages ELSE <<>>)
         \o MessagesTo(Tail(jobs), username)

SchedUsernames == {"liz", "nick", "steven"}

\* C21: each collector emits at most one job per user, and in the list
\* schedule_daily_summaries hands to delivery every recipient appears in
\* exactly one job, whose messages are the summary messages followed by the
\* badge progress messages emitted for that user; a user no collector
\* emitted a job for has no job.
C21_MergedOncePerUser ==
    pout.done =>
        \A u \in SchedUsernames :
            /\ JobsTo(pout.value.summary_jobs, u) <= 1
            /\ JobsTo(pout.value.badge_jobs, u) <= 1
            /\ pout.value.task = "overdue" => JobsTo(pout.value.jobs, u) <= 1
            /\ pout.value.task = "summaries" =>
                 LET emitted == MessagesTo(pout.value.summary_jobs, u)
                                    \o MessagesTo(pout.value.badge_jobs, u)
                 IN  /\ JobsTo(pout.value.jobs, u) = IF emitted = <<>> THEN 0 ELSE 1
                     /\ MessagesTo(pout.value.jobs, u) = emitted

C21_Witness ==
    /\ pout.done
    /\ pout.value.task = "summaries"
    /\ JobsTo(pout.value.summary_jobs, "liz") = 1
    /\ JobsTo(pout.value.badge_jobs, "liz") = 1
    /\ JobsTo(pout.value.badge_jobs, "nick") = 1
    /\ JobsTo(pout.value.summary_jobs, "nick") = 0
    /\ Len(MessagesTo(pout.value.jobs, "liz")) = 2

\* the positions of the open tasks visible to u whose due date is before
\* (mode overdue) or on (mode today) the run date
DueTasks(u, mode) ==
    {i \in 1..Len(tasksFile) :
        LET task == tasksFile[i]
            text == IF task.due_date # <<>> THEN task.due_date ELSE task.due
        IN  /\ ~task.done
            /\ task_visible_to(task, u, Users)
            /\ Len(text) = 3
            /\ IsDate(MkDate(text[1], text[2], text[3]))
            /\ IF mode = "overdue"
               THEN \/ text[1] < Today.year
                    \/ text[1] = Today.year /\ text[2] < Today.month
                    \/ text[1] = Today.year /\ text[2] = Today.month /\ text[3] < Today.day
               ELSE text = <<Today.year, Today.month, Today.day>>}

\* the one message of u's job lists exactly the tasks at the positions S
ListsExactly(jobs, u, S) ==
    LET body == MessagesTo(jobs, u)[1].body IN
    /\ Len(MessagesTo(jobs, u)) = 1
    /\ Len(body) = Cardinality(S)
    /\ \A k \in 1..Len(body) :
           \E i \in S : /\ body[k].label = tasksFile[i].text
                        /\ body[k].priority = tasksFile[i].priority
                        /\ <<body[k].due.year, body[k].due.month, body[k].due.day>>
                               = (IF tasksFile[i].due_date # <<>> THEN tasksFile[i].due_date
                                  ELSE tasksFile[i].due)

\* C22: the overdue collector emits a job for a user if and only if the
\* user's frequency is not off, overdue_enabled is true and some task is not
\* done, visible to the user and due strictly before the run date; the job
\* lists exactly those tasks.
C22_OverdueJobs ==
    (pout.done /\ pout.value.task = "overdue") =>
        \A u \in SchedUsernames :
            LET prefs == PrefsOf(pin, u)
                wanted == /\ prefs.frequency # "off"
                          /\ prefs.overdue_enabled
                          /\ DueTasks(u, "overdue") # {}
            IN  /\ JobsTo(pout.value.jobs, u) = IF wanted THEN 1 ELSE 0
                /\ wanted => ListsExactly(pout.value.jobs, u, DueTasks(u, "overdue"))

C22_Witness ==
    /\ pout.done
    /\ pout.value.task = "overdue"
    /\ JobsTo(pout.value.jobs, "liz") = 1
    /\ Cardinality(DueTasks("liz", "overdue")) = 1
    /\ Len(tasksFile) = 2
    /\ JobsTo(pout.value.jobs, "nick") = 0

\* Monday is 0: 2024-01-29 is a Monday, 2024-01-30 a Tuesday
RunWeekday == IF Today = MkDate(2024, 1, 29) THEN 0 ELSE 1

\* C23: the summary collector considers a user with summaries enabled on
\* every run when the frequency is daily, only on runs whose weekday is the
\* user's weekly_day when it is weekly, never when it is off; a considered
\* user gets a job listing exactly the visible open tasks due on the run
\* date, and no job when there is none.
C23_SummaryCadence ==
    (pout.done /\ pout.value.task = "summaries") =>
        \A u \in SchedUsernames :
            LET prefs == PrefsOf(pin, u)
                considered == /\ prefs.summary_enabled
                              /\ \/ prefs.frequency = "daily"
                                 \/ prefs.frequency = "weekly" /\ prefs.weekly_day = RunWeekday
                wanted == considered /\ DueTasks(u, "today") # {}
            IN  /\ JobsTo(pout.value.summary_jobs, u) = IF wanted THEN 1 ELSE 0
                /\ wanted => ListsExactly(pout.value.summary_jobs, u, DueTasks(u, "today"))

C23_Witness ==
    /\ pout.done
    /\ pout.value.task = "summaries"
    /\ "liz" \in DOMAIN pin
    /\ pin["liz"].frequency = "weekly"
    /\ pin["liz"].weekly_day = 1
    /\ Today = MkDate(2024, 1, 30)
    /\ JobsTo(pout.value.summary_jobs, "liz") = 1

\* a weekly user is skipped on a run that is not on the configured weekday
C23_WitnessSkipped ==
    /\ pout.done
    /\ pout.value.task = "summaries"
    /\ "liz" \in DOMAIN pin
    /\ pin["liz"].frequency = "weekly"
    /\ pin["liz"].summary_enabled
    /\ pin["liz"].weekly_day = 0
    /\ Today = MkDate(2024, 1, 30)
    /\ DueTasks("liz", "today") # {}
    /\ JobsTo(pout.value.summary_jobs, "liz") = 0

\* the tasks completed by u: completed_by, or the assignee when it is empty
CompletedBy(u) ==
    Cardinality({i \in 1..Len(tasksFile) :
                    /\ tasksFile[i].done
                    /\ (IF tasksFile[i].completed_by # "" THEN tasksFile[i].completed_by
                        ELSE tasksFile[i].assigned_username) = u})

\* remaining of the first badge of the order u has not earned; 0 when u
\* has earned every badge.  The tasks of the model are completed on one day.
RemainingOfNext(u) ==
    LET earned == {userBadges[i].badge_slug :
                      i \in {j \in 1..Len(userBadges) : userBadges[j].username = u}}
        count  == CompletedBy(u)
        streak == IF count > 0 THEN 1 ELSE 0
    IN  IF BADGE_SLUG_FIRST_STEP \notin earned
        THEN (IF count >= 1 THEN 0 ELSE 1 - count)
        ELSE IF BADGE_SLUG_TASK_MASTER \notin earned
        THEN (IF count >= 100 THEN 0 ELSE 100 - count)
        ELSE IF BADGE_SLUG_WEEKLY_WARRIOR \notin earned
        THEN (IF streak >= 7 THEN 0 ELSE 7 - streak)
        ELSE 0

\* C24: the badge progress collector emits a job for every user with
\* badge_enabled whose first badge not yet earned has remaining > 0, and no
\* job for a user whose remaining is 0 or who has earned every badge.
C24_BadgeProgressJobs ==
    (pout.done /\ pout.value.task = "summaries") =>
        \A u \in SchedUsernames :
            JobsTo(pout.value.badge_jobs, u)
                = IF PrefsOf(pin, u).badge_enabled /\ RemainingOfNext(u) > 0 THEN 1 ELSE 0

\* the same, for the users whose frequency is not off
C24_ExceptFrequencyOff ==
    (pout.done /\ pout.value.task = "summaries") =>
        \A u \in SchedUsernames :
            PrefsOf(pin, u).frequency # "off" =>
                JobsTo(pout.value.badge_jobs, u)
                    = IF PrefsOf(pin, u).badge_enabled /\ RemainingOfNext(u) > 0 THEN 1 ELSE 0

-----------------------------------------------------------------------------
\* The flat-file store with failing steps: a step of save_json_atomic or of
\* load_json may raise, and the topic file may hold text json.load rejects.

FaultFiles == StoreFiles \cup {"corrupt"}

InitFault ==
    /\ DB_ENABLED \in BOOLEAN
    /\ LOCKING = TRUE
    /\ \E file \in FaultFiles :
         /\ inodes = IF file = "missing" THEN <<>>
                     ELSE IF file = "corrupt" THEN << <<InitialContent("full")>> >>
                     ELSE << <<InitialContent(file), InitialContent(file)>> >>
         /\ dirent = IF file = "missing" THEN 0 ELSE 1
         /\ order = IF file \in {"missing", "corrupt"} THEN <<>> ELSE <<InitialContent(file)>>
    /\ lockHolder = 0
    /\ procs = [p \in Procs |-> IdleProc]
    /\ rows = <<>>
    /\ committed = 0
    /\ nextVersion = 1
    /\ LifeIdle
    /\ PureIdle

SaveSteps == {"s_mkstemp", "s_dump", "s_flush", "s_fsync", "s_replace"}

ReadSteps == {"l_open", "l_read", "l_rest"}

\* a step inside the with block of save_json_atomic raises, the lock being
\* kept: what the code would do without the finally of with_json_lock
SaveFail_keeping_lock(p) ==
    /\ procs[p].pc \in SaveSteps
    /\ procs' = [procs EXCEPT ![p].pc = "idle",
                              ![p].result = [kind |-> "raised", content |-> Placeholder]]
    /\ UNCHANGED <<inodes, dirent, lockHolder, rows, order, committed, nextVersion, LOCKING>>

\* mkstemp, json.dump, flush, fsync or os.replace raises: the finally blocks
\* remove the temporary file and release the lock, and the exception leaves
\* save_json_atomic (and load_json, when it was persisting its default)
SaveFail(p) ==
    /\ procs[p].pc \in SaveSteps
    /\ Release(p)
    /\ procs' = [procs EXCEPT ![p].pc = "idle",
                              ![p].result = [kind |-> "raised", content |-> Placeholder]]
    /\ UNCHANGED <<inodes, dirent, rows, order, committed, nextVersion, LOCKING>>

\* open(path) or a read raises an OSError that is not FileNotFoundError
\* (permission denied, disk error): the with block unlocks, and the
\* except OSError clause of load_json returns the default
LoadFail(p) ==
    /\ procs[p].pc \in ReadSteps
    /\ dirent # 0
    /\ Release(p)
    /\ procs' = [procs EXCEPT ![p].pc = "idle",
                              ![p].result = [kind |-> "os_error", content |-> Placeholder]]
    /\ UNCHANGED <<inodes, dirent, rows, order, committed, nextVersion, LOCKING>>

NextFault ==
    \/ NextStore
    \/ \E p \in Procs : SaveFail(p) /\ UNCHANGED <<lifeVars, pureVars>>
    \/ \E p \in Procs : LoadFail(p) /\ UNCHANGED <<lifeVars, pureVars>>

SpecFault == InitFault /\ [][NextFault]_vars

\* the steps a worker takes inside a with with_json_lock block
LockedSteps == SaveSteps \cup ReadSteps \cup {"s_unlock", "l_return"}

\* C25: every save or load releases the topic's lock before it returns or
\* raises, whichever step failed: the lock is held only by a worker that is
\* inside its with block, never by one whose operation ended.
C25_LockReleased ==
    /\ lockHolder # 0 => procs[lockHolder].pc \in LockedSteps
    /\ \A p \in Procs : procs[p].pc \in LockedSteps => lockHolder = p

\* a save failed, and another worker holds the lock afterwards
C25_Witness ==
    \E p, q \in Procs :
        /\ p # q
        /\ procs[p].pc = "idle"
        /\ procs[p].result.kind = "raised"
        /\ lockHolder = q
        /\ procs[q].pc = "s_dump"

HoldsDefault == /\ dirent # 0
                /\ Decodable(inodes[dirent])
                /\ inodes[dirent][1].empty

\* p's load returns the default in this step
ReturnsDefault(p) ==
    /\ procs[p].pc # "idle"
    /\ procs'[p].pc = "idle"
    /\ procs'[p].result.kind \in {"default", "decode_error"}

\* C26: a load of a missing or undecodable source returns the default
\* without raising and persists it: when it returns, the source exists and
\* holds the default.
C26_DefaultPersisted ==
    [][\A p \in Procs : ReturnsDefault(p) => HoldsDefault']_vars

\* the missing-file half of C26: the default returned for a missing source
\* has been persisted when the load returns
C26_MissingPersisted ==
    [][\A p \in Procs :
          (ReturnsDefault(p) /\ procs'[p].result.kind = "default") => HoldsDefault']_vars


\* C27: a load whose open or read hit an I/O error other than a missing file
\* raises it to the caller; it never returns the default.
C27_IOErrorPropagates ==
    \A p \in Procs : procs[p].result.kind # "os_error"

-----------------------------------------------------------------------------
\* save_tasks and load_tasks on task lists with untidy recurrence values and
\* with owner, assignee and completer names that are not in the user table.

\* C28: with the relational backend, once a relational save of the tasks has
\* succeeded, a load returns what the rows give and the flat-file snapshot no
\* longer determines its result.
C28_RowsDetermineLoad ==
    (pout.done /\ DB_ENABLED /\ reqs = 1) =>
        LET ToDict(row) == apply_task_defaults(task_to_dict(row))
        IN  pout.value = SeqMap(ToDict, taskRows)

\* the first half of C28: the rows are returned whenever there are any
C28_RowsPreferred ==
    (pout.done /\ DB_ENABLED /\ taskRows # <<>>) =>
        LET ToDict(row) == apply_task_defaults(task_to_dict(row))
        IN  pout.value = SeqMap(ToDict, taskRows)

RecurInputs == {"", "daily", "Weekly ", "YES", "fortnightly"}

SaveTask(recurring, owner, assignee, completer) ==
    [LegacyTask EXCEPT !.text = "t", !.assigned_to = "", !.recurring = recurring,
                       !.owner = owner, !.created_by = owner,
                       !.assigned_username = assignee,
                       !.done = completer # "",
                       !.completed_at = IF completer # "" THEN RTCompletedAt ELSE <<>>,
                       !.completed_by = completer]

\* every recurrence text with valid names, every combination of valid and
\* dangling names with no recurrence
SaveTaskPool ==
    {SaveTask(recurring, "steven", "liz", "") : recurring \in RecurInputs}
    \cup {SaveTask("", owner, assignee, completer) :
             owner \in {"steven", "ghost"}, assignee \in {"liz", "ghost"},
             completer \in {"", "nick", "ghost"}}

\* snapshots written before recurrence was normalized
LegacyFiles ==
    { <<>>, <<LegacyTask>>, <<[LegacyTask EXCEPT !.recurring = "YES"]>>,
      <<[LegacyTask EXCEPT !.recurring = "fortnightly"]>> }

InitSave ==
    /\ pin \in ListsUpTo(SaveTaskPool, MaxTasks)
    /\ pout = Pending
    /\ DB_ENABLED \in BOOLEAN
    /\ tasksFile \in LegacyFiles
    /\ taskRows = <<>>
    /\ userBadges = <<>>
    /\ now = StartClock
    /\ ticks = 0
    /\ reqs = 0
    /\ last = NoRequest
    /\ StoreIdle

\* save_tasks(pin)
SaveTasks ==
    /\ reqs = 0
    /\ ~pout.done
    /\ save_tasks(pin)
    /\ reqs' = 1
    /\ UNCHANGED <<DB_ENABLED, userBadges, now, ticks, last, pin, pout>>

\* load_tasks(), before or after the save
LoadTasks ==
    /\ ~pout.done
    /\ pout' = [done |-> TRUE, value |-> load_tasks]
    /\ UNCHANGED <<pin, lifeVars>>

NextSave ==
    \/ SaveTasks /\ UNCHANGED storeVars
    \/ LoadTasks /\ UNCHANGED storeVars

SpecSave == InitSave /\ [][NextSave]_vars

Saved == reqs = 1

\* the reference as stored: kept when it names a user, null otherwise
Kept(username) == IF username \in {"liz", "nick", "steven"} THEN username ELSE ""

\* C29: with the relational backend save_tasks rejects no task for a
\* dangling owner, assignee or completer: every task of the list gets its
\* row, a reference that names no user is stored as null, the task's other
\* references and fields are stored as given, and so is every other task.
C29_DanglingNulled ==
    (Saved /\ DB_ENABLED) =>
        /\ Len(taskRows) = Len(pin)
        /\ \A i \in 1..Len(pin) :
               /\ taskRows[i].assigned_username = Kept(pin[i].assigned_username)
               /\ taskRows[i].owner_username = Kept(pin[i].owner)
               /\ taskRows[i].completed_by_username = Kept(pin[i].completed_by)
               /\ taskRows[i].text = pin[i].text
               /\ taskRows[i].done = pin[i].done
               /\ taskRows[i].priority = pin[i].priority
               /\ taskRows[i].notes = pin[i].notes
               /\ taskRows[i].assigned_display = pin[i].assigned_to
               /\ taskRows[i].overdue = pin[i].overdue
               /\ iso_date(taskRows[i].due_date) = pin[i].due_date
               /\ taskRows[i].position = i - 1

C29_Witness ==
    /\ Saved
    /\ DB_ENABLED
    /\ Len(pin) = 2
    /\ pin[1].assigned_username = "ghost"
    /\ pin[1].owner = "steven"
    /\ pin[1].completed_by = "nick"
    /\ taskRows[1].assigned_username = ""
    /\ taskRows[1].owner_username = "steven"
    /\ taskRows[1].completed_by_username = "nick"
    /\ pin[2].assigned_username = "liz"
    /\ taskRows[2].assigned_username = "liz"

\* "" is none
RecurrenceEnumeration == {"", "daily", "weekly", "monthly"}

\* what each recurrence text of the model stands for
ExpectedRecurrence(text) ==
    CASE text = "daily"       -> "daily"
      [] text = "Weekly "     -> "weekly"
      [] text = "weekly"      -> "weekly"
      [] text = "YES"         -> "weekly"
      [] text = "fortnightly" -> ""
      [] text = ""            -> ""

\* C30: every task load_tasks returns and every task save_tasks writes has
\* its recurrence in {none, daily, weekly, monthly}: a recognized value is
\* matched case-insensitively after trimming, yes/true become weekly, any
\* other value none.
C30_RecurrenceEnumerated ==
    /\ pout.done =>
         /\ \A i \in 1..Len(pout.value) : pout.value[i].recurring \in RecurrenceEnumeration
         /\ (Saved /\ pout.value # <<>> /\ (pin # <<>> \/ ~DB_ENABLED)) =>
                /\ Len(pout.value) = Len(pin)
                /\ \A i \in 1..Len(pin) :
                       pout.value[i].recurring = ExpectedRecurrence(pin[i].recurring)
         /\ (~Saved \/ (DB_ENABLED /\ pin = <<>>)) =>
                /\ Len(pout.value) = Len(tasksFile)
                /\ \A i \in 1..Len(tasksFile) :
                       pout.value[i].recurring = ExpectedRecurrence(tasksFile[i].recurring)
    /\ Saved =>
         /\ ~DB_ENABLED => /\ Len(tasksFile) = Len(pin)
                           /\ \A i \in 1..Len(pin) :
                                  tasksFile[i].recurring = ExpectedRecurrence(pin[i].recurring)
         /\ DB_ENABLED => /\ Len(taskRows) = Len(pin)
                          /\ \A i \in 1..Len(pin) :
                                 taskRows[i].recurring = ExpectedRecurrence(pin[i].recurring)

C30_Witness ==
    /\ pout.done
    /\ Saved
    /\ Len(pin) = 2
    /\ pin[1].recurring = "YES"
    /\ pin[2].recurring = "fortnightly"
    /\ pout.value[1].recurring = "weekly"
    /\ pout.value[2].recurring = ""

(***************************************************************************)
(* Tag normalization on its own.  A text value is the sequence of its      *)
(* characters; a list value is a list of the texts Strip knows.            *)
(***************************************************************************)
MaxTagChars == 4

MaxTagItems == 3

\* value.replace(';', ",")
replace_semicolons(value) ==
    Tuple([i \in 1..Len(value) |-> IF value[i] = ";" THEN "," ELSE value[i]], Len(value))

RECURSIVE split_commas(_)
\* raw.split(",")
split_commas(raw) ==
    IF \A i \in 1..Len(raw) : raw[i] # "," THEN <<raw>>
    ELSE LET i == CHOOSE k \in 1..Len(raw) : raw[k] = "," /\ \A j \in 1..(k - 1) : raw[j] # ","
         IN  <<SubSeq(raw, 1, i - 1)>> \o split_commas(SubSeq(raw, i + 1, Len(raw)))

RECURSIVE strip_chars(_)
\* token.strip() on a sequence of characters
strip_chars(token) ==
    IF token = <<>> THEN <<>>
    ELSE IF Head(token) = " " THEN strip_chars(Tail(token))
    ELSE IF token[Len(token)] = " " THEN strip_chars(SubSeq(token, 1, Len(token) - 1))
    ELSE token

RECURSIVE StrippedTokens(_)
\* [token.strip() for token in tokens if token.strip()]
StrippedTokens(tokens) ==
    IF tokens = <<>> THEN <<>>
    ELSE LET token == strip_chars(Head(tokens)) IN
         IF token = <<>> THEN StrippedTokens(Tail(tokens))
         ELSE <<token>> \o StrippedTokens(Tail(tokens))

\* normalize_tags on a str value
normalize_tags_str(value) ==
    IF value = <<>> THEN <<>>
    ELSE StrippedTokens(split_commas(replace_semicolons(value)))

TagChars == {"x", " ", ",", ";"}

TagItems == {"x", " x ", " ", "y", ""}

InitTags ==
    /\ pin \in [kind : {"str"}, value : ListsUpTo(TagChars, MaxTagChars)]
               \cup [kind : {"list"}, value : ListsUpTo(TagItems, MaxTagItems)]
    /\ pout = Pending
    /\ DB_ENABLED = FALSE
    /\ LifeIdle
    /\ StoreIdle

\* apply_task_defaults on a task whose tags are pin.value
TagsApply ==
    /\ ~pout.done
    /\ pout' = [done |-> TRUE,
                value |-> IF pin.kind = "str" THEN normalize_tags_str(pin.value)
                          ELSE normalize_tags(pin.value)]
    /\ UNCHANGED <<pin, lifeVars, storeVars>>

NextTags == TagsApply

SpecTags == InitTags /\ [][NextTags]_vars

\* a returned tag that is empty or carries outer blanks
Untrimmed(tag) ==
    IF pin.kind = "str" THEN tag = <<>> \/ Head(tag) = " " \/ tag[Len(tag)] = " "
    ELSE tag \in {"", " ", " x "}

\* C31: the tags normalize_tags returns, for a list or a delimited text, are
\* trimmed and non-empty and no tag occurs twice among them.
C31_TagsDeduplicated ==
    pout.done =>
        /\ \A i \in 1..Len(pout.value) : ~Untrimmed(pout.value[i])
        /\ \A i, j \in 1..Len(pout.value) : pout.value[i] = pout.value[j] => i = j

\* C31 without the deduplication: every returned tag is the trimmed form of
\* a non-blank entry of the input, in the input's order, one per entry.
C31_TrimmedNonEmpty ==
    pout.done =>
        LET entries == IF pin.kind = "str" THEN split_commas(replace_semicolons(pin.value))
                       ELSE pin.value
            Trim(e) == IF pin.kind = "str" THEN strip_chars(e) ELSE Strip(e)
            Blank(e) == IF pin.kind = "str" THEN Trim(e) = <<>> ELSE Trim(e) = ""
            kept == { i \in 1..Len(entries) : ~Blank(entries[i]) }
            Rank(i) == Cardinality({ k \in kept : k <= i })
        IN  /\ Len(pout.value) = Cardinality(kept)
            /\ \A i \in kept : pout.value[Rank(i)] = Trim(entries[i])
            /\ \A i \in 1..Len(pout.value) : ~Untrimmed(pout.value[i])

(***************************************************************************)
(* The overdue listing, asked for after any run of the task handlers.      *)
(***************************************************************************)
\* the sort key of a due datetime: minutes since the start of the calendar
DueKey(due_dt) == (Ordinal(DateOf(due_dt)) * 24 + due_dt.hour) * 60 + due_dt.minute

RECURSIVE InsertByDue(_, _)
\* one step of the stable overdue_entries.sort(key=lambda item: item["due_dt"])
InsertByDue(sorted, entry) ==
    IF sorted = <<>> THEN <<entry>>
    ELSE IF DueKey(entry.due_dt) < DueKey(Head(sorted).due_dt) THEN <<entry>> \o sorted
    ELSE <<Head(sorted)>> \o InsertByDue(Tail(sorted), entry)

RECURSIVE SortByDue(_)
SortByDue(entries) ==
    IF entries = <<>> THEN <<>>
    ELSE InsertByDue(SortByDue(SubSeq(entries, 1, Len(entries) - 1)), entries[Len(entries)])

\* the test of one task in the loop of overdue_tasks, reading due before due_date
OverdueEntry(task, username, role, users, today) ==
    LET due_raw == IF task.due # <<>> THEN task.due ELSE task.due_date
        due_dt  == parse_dt_any(due_raw)
    IN  /\ ~task.done
        /\ (role = "manager" \/ task_visible_to(task, username, users))
        /\ due_dt # NoDT
        /\ DateLess(DateOf(due_dt), today)

RECURSIVE OverdueEntries(_, _, _, _, _, _)
\* the entries the loop appends for the tasks from index idx on
OverdueEntries(tasks, idx, username, role, users, today) ==
    IF idx >= Len(tasks) THEN <<>>
    ELSE LET task == tasks[idx + 1]
             rest == OverdueEntries(tasks, idx + 1, username, role, users, today)
         IN  IF OverdueEntry(task, username, role, users, today)
             THEN <<[idx |-> idx, task |-> task,
                     due_dt |-> parse_dt_any(IF task.due # <<>> THEN task.due
                                             ELSE task.due_date)]>> \o rest
             ELSE rest

\* GET /overdue
overdue_tasks(username) ==
    SortByDue(OverdueEntries(load_tasks, 0, username, RoleOf(username), load_users, Today))

OverdueList ==
    /\ pout = <<>>
    /\ \E u \in Usernames :
          /\ pin' = u
          /\ pout' = <<overdue_tasks(u)>>
    /\ UNCHANGED <<lifeVars, storeVars>>

NextOverdue ==
    \/ (pout = <<>> /\ Next)
    \/ OverdueList

SpecOverdue == Init /\ [][NextOverdue]_vars

\* the listing that was rendered, and the indexes it shows
Listing == pout[1]

Listed == { Listing[i].idx : i \in 1..Len(Listing) }

\* the task's due date: due_date, or the legacy due text when there is none
DueDateOf(task) == parse_date(IF task.due_date # <<>> THEN task.due_date ELSE task.due)

\* C32: the overdue listing shows exactly the not-done tasks with a parseable
\* due date before today that are visible to the member, or all such tasks
\* for a manager; tasks that are done, undated, unparseable or due today or
\* later never appear.
C32_OverdueListing ==
    pout # <<>> =>
        LET tasks == load_tasks
            Due(i) == DueDateOf(tasks[i + 1])
        IN  Listed = { i \in 0..(Len(tasks) - 1) :
                         /\ ~tasks[i + 1].done
                         /\ (RoleOf(pin) = "manager"
                             \/ task_visible_to(tasks[i + 1], pin, load_users))
                         /\ Due(i) # NoDate
                         /\ DateLess(Due(i), Today) }

\* C32 for tasks whose due text and due_date agree or whose due text is unset
C32_WhenDueAgrees ==
    pout # <<>> =>
        LET tasks == load_tasks
            Due(i) == DueDateOf(tasks[i + 1])
        IN  \A i \in 0..(Len(tasks) - 1) :
                (tasks[i + 1].due = <<>> \/ tasks[i + 1].due = tasks[i + 1].due_date) =>
                    (i \in Listed <=>
                         /\ ~tasks[i + 1].done
                         /\ (RoleOf(pin) = "manager"
                             \/ task_visible_to(tasks[i + 1], pin, load_users))
                         /\ Due(i) # NoDate
                         /\ DateLess(Due(i), Today))

(***************************************************************************)
(* The frame of the task handlers (specification Spec).                    *)
(***************************************************************************)
\* a request of the given handler was served in this step
Served(op) == last'.op = op /\ reqs' = reqs + 1

\* every task of the list before the step is at its index, unchanged, after
\* it, except possibly the one at position k (k = 0: no exception)
OthersKept(pre, post, k) ==
    /\ Len(post) >= Len(pre)
    /\ \A i \in 1..Len(pre) : i # k => post[i] = pre[i]

\* the step of add, edit and toggle as C33 describes it
FrameOfAddEditToggle ==
    LET pre  == load_tasks
        post == load_tasks'
        k    == last'.task_id + 1
    IN  /\ Served("add") =>
            IF last'.applied
            THEN /\ Len(post) = Len(pre) + 1
                 /\ OthersKept(pre, post, 0)
                 /\ ~post[Len(post)].done
            ELSE post = pre
        /\ Served("edit") =>
            IF last'.applied
            THEN Len(post) = Len(pre) /\ OthersKept(pre, post, k)
            ELSE post = pre
        /\ Served("toggle") =>
            IF last'.applied
            THEN /\ Len(post) \in {Len(pre), Len(pre) + 1}
                 /\ OthersKept(pre, post, k)
                 /\ post[k] = [pre[k] EXCEPT !.done = post[k].done,
                                             !.completed_at = post[k].completed_at,
                                             !.completed_by = post[k].completed_by]
            ELSE post = pre

\* the step of remove as C33 describes it
FrameOfRemove ==
    LET pre  == load_tasks
        post == load_tasks'
    IN  /\ Len(post) < Len(pre) => (Served("remove") /\ last'.applied)
        /\ Served("remove") =>
            IF last'.applied THEN post = RemoveAt(pre, last'.task_id) ELSE post = pre

\* C33: add, edit and toggle never delete or reorder tasks and change no task
\* but the targeted one (add appends one not-done task, toggle changes only
\* done, completed_at and completed_by of its target and appends at most one
\* sibling); only an authorized remove deletes a task, and it deletes exactly
\* the task at the given index.
C33_HandlerFrame == [][FrameOfAddEditToggle /\ FrameOfRemove]_vars

\* C33 in the flat-file backend
C33_FlatFileFrame == [][~DB_ENABLED => (FrameOfAddEditToggle /\ FrameOfRemove)]_vars

\* C33 in the relational backend, once the table holds a task before and
\* after the step
C33_TableFrame ==
    [][(DB_ENABLED /\ taskRows # <<>> /\ taskRows' # <<>>)
          => (FrameOfAddEditToggle /\ FrameOfRemove)]_vars

\* the removal half of C33 alone
C33_RemoveDeletesTarget == [][FrameOfRemove]_vars

(***************************************************************************)
(* get_next_badge_progress as a function.                                  *)
(***************************************************************************)
\* completed counts and streak lengths around the three targets
ProgressCounts == {0, TargetFirstStep, TargetFirstStep + 1, TargetTaskMaster - 1,
                   TargetTaskMaster, TargetTaskMaster + 1}

ProgressStreaks == {0, 1, TargetWeeklyWarrior - 1, TargetWeeklyWarrior, TargetWeeklyWarrior + 1}

InitProgress ==
    /\ pin \in [completed_count : ProgressCounts, longest_streak : ProgressStreaks,
                earned_slugs : SUBSET BadgeCatalog]
    /\ pout = Pending
    /\ DB_ENABLED = FALSE
    /\ LifeIdle
    /\ StoreIdle

ProgressApply ==
    /\ ~pout.done
    /\ pout' = [done |-> TRUE,
                value |-> get_next_badge_progress(
                              [completed_count |-> pin.completed_count,
                               longest_streak |-> pin.longest_streak],
                              pin.earned_slugs)]
    /\ UNCHANGED <<pin, lifeVars, storeVars>>

NextProgress == ProgressApply

SpecProgress == InitProgress /\ [][NextProgress]_vars

\* the positions of the order whose badge is not earned
Unearned == { i \in 1..Len(BADGE_PROGRESS_ORDER) : BADGE_PROGRESS_ORDER[i] \notin pin.earned_slugs }

\* C35: the progress returned is that of the first badge of the order
\* first_step, task_master, weekly_warrior that is not earned, with remaining
\* = max(target - metric, 0); nothing is returned when all are earned.
C35_FirstUnearnedBadge ==
    pout.done =>
        IF Unearned = {} THEN pout.value = NoProgress
        ELSE LET first  == CHOOSE i \in Unearned : \A j \in Unearned : i <= j
                 slug   == BADGE_PROGRESS_ORDER[first]
                 metric == IF slug = BADGE_SLUG_WEEKLY_WARRIOR THEN pin.longest_streak
                           ELSE pin.completed_count
                 target == CASE slug = BADGE_SLUG_FIRST_STEP -> 1
                             [] slug = BADGE_SLUG_TASK_MASTER -> 100
                             [] slug = BADGE_SLUG_WEEKLY_WARRIOR -> 7
             IN  /\ pout.value.slug = slug
                 /\ pout.value.current = metric
                 /\ pout.value.target = target
                 /\ pout.value.remaining = (IF target > metric THEN target - metric ELSE 0)

\* first_step is unearned though two tasks are completed and an eight-day
\* streak already meets weekly_warrior: first_step is reported, remaining 0
C35_Witness ==
    /\ pout.done
    /\ pin.earned_slugs = {BADGE_SLUG_TASK_MASTER}
    /\ pin.completed_count = 2 /\ pin.longest_streak = 8
    /\ pout.value.slug = BADGE_SLUG_FIRST_STEP
    /\ pout.value.remaining = 0

(***************************************************************************)
(* The award a completion triggers.                                        *)
(***************************************************************************)
\* the catalog badges whose rule the user's stats over task_list satisfy
Satisfied(uname, task_list) ==
    LET stats == get_user_completion_stats(uname, task_list) IN
    { slug \in BadgeCatalog :
        \/ slug = BADGE_SLUG_FIRST_STEP /\ stats.completed_count >= 1
        \/ slug = BADGE_SLUG_TASK_MASTER /\ stats.completed_count >= 100
        \/ slug = BADGE_SLUG_WEEKLY_WARRIOR /\ stats.longest_streak >= 7 }

\* no link of the collection exists yet: liz's six completions are older
\* than her first award
InitBadgeFresh ==
    /\ DB_ENABLED \in BOOLEAN
    /\ tasksFile = BadgeTasks
    /\ taskRows = <<>>
    /\ userBadges = <<>>
    /\ now = StartClock
    /\ ticks = 0
    /\ reqs = 0
    /\ last = NoRequest
    /\ PureIdle
    /\ inodes = <<>>
    /\ dirent = 0
    /\ lockHolder = 0
    /\ procs = [p \in Procs |-> IdleWorker]
    /\ rows = <<>>
    /\ order = <<>>
    /\ committed = 0
    /\ nextVersion = 0
    /\ LOCKING = FALSE

SpecAwardRace == InitBadgeFresh /\ [][NextBadge]_vars

\* worker p's award_badges_for_user returns in this step
AwardReturns(p) ==
    /\ procs[p].pc = "write"
    /\ procs'[p].pc = "save"

\* C36: when award_badges_for_user(U) returns, U holds every catalog badge
\* whose rule U's stats satisfy (the stats counting the task just completed)
\* and holds no badge that it did not hold before and whose rule is not
\* satisfied.
C36_AwardedWhatIsSatisfied ==
    [][ \A p \in Procs : AwardReturns(p) =>
          LET uname == Norm(procs[p].user)
              due   == Satisfied(uname, procs[p].ts)
          IN  /\ due \subseteq EarnedSlugs(userBadges', uname)
              /\ EarnedSlugs(userBadges', uname) \subseteq (due \cup EarnedSlugs(userBadges, uname))
      ]_vars

\* C36 for requests served one at a time: the toggle that completes a task
\* leaves its user with exactly the badges held before plus those whose rule
\* the stats over the saved list satisfy, and the toggle that un-completes
\* one leaves the collection alone.
C36_ToggleAwards ==
    [][ Applied("toggle") =>
          LET uname == Norm(last'.user)
              k     == last'.task_id + 1
          IN  IF load_tasks'[k].done
              THEN /\ EarnedSlugs(userBadges', uname) =
                        EarnedSlugs(userBadges, uname) \cup Satisfied(uname, load_tasks')
                   /\ BADGE_SLUG_FIRST_STEP \in EarnedSlugs(userBadges', uname)
                   /\ \A other \in Usernames \ {uname} :
                          EarnedSlugs(userBadges', other) = EarnedSlugs(userBadges, other)
              ELSE userBadges' = userBadges
      ]_vars

\* C36 for one call of award_badges_for_user on given task data
C36_CallAwards ==
    (reqs >= 1 /\ Norm(pin.username) # "") =>
        LET first == IF pout.done THEN pout.value.first ELSE pout.value IN
        /\ Satisfied(Norm(pin.username), pin.tasks) \subseteq EarnedSlugs(first, Norm(pin.username))
        /\ Len(first) <= Len(userBadges)

(***************************************************************************)
(* The display cache of a user record.  Two stores that hold the same      *)
(* tasks and the same links, and differ at most in the cached counters of  *)
(* the acting user, serve the same requests side by side.                  *)
(***************************************************************************)
\* update_user_progress_fields: the cached counters of the record afterwards
update_user_progress_fields(cache, total_completed, streak) ==
    [cache EXCEPT !.total_tasks_completed = total_completed, !.streak_count = streak]

\* GET /profile, were it to trust a cached total larger than the computed one
profile_trusting_cache(username, store, tasks) ==
    LET stats    == get_user_completion_stats(username, tasks)
        trusted  == IF store.cache.total_tasks_completed > stats.completed_count
                    THEN store.cache.total_tasks_completed ELSE stats.completed_count
        progress == get_next_badge_progress([stats EXCEPT !.completed_count = trusted],
                                            EarnedSlugs(store.user_badges, Norm(username)))
    IN  [shown |-> [stats |-> stats, progress |-> progress],
         store |-> [store EXCEPT !.cache = update_user_progress_fields(
                                               store.cache, trusted, stats.current_streak)]]

\* GET /profile on one store: what is rendered, and the store afterwards
profile(username, store, tasks) ==
    LET stats           == get_user_completion_stats(username, tasks)
        total_completed == stats.completed_count
        current_streak  == stats.current_streak
        progress_info   == get_next_badge_progress(stats,
                                                   EarnedSlugs(store.user_badges, Norm(username)))
    IN  [shown |-> [stats |-> stats, progress |-> progress_info],
         store |-> [store EXCEPT !.cache = update_user_progress_fields(
                                               store.cache, total_completed, current_streak)]]

\* award_badges_for_user on one store: what it returns, and the store afterwards
award(username, store, tasks) ==
    [shown |-> NewlyAwarded(store.user_badges, username, tasks),
     store |-> [store EXCEPT !.user_badges =
                                award_badges_for_user(store.user_badges, username, tasks)]]

\* cached counters as a store may hold them: fresh, stale or never written
CachedCounters == [total_tasks_completed : {0, 3, 7}, streak_count : {0, 2}]

InitCache ==
    /\ \E u \in Usernames, ub \in AwardCollections, a, b \in CachedCounters :
          pin = [username |-> u,
                 A |-> [cache |-> a, user_badges |-> ub],
                 B |-> [cache |-> b, user_badges |-> ub]]
    /\ pout = Pending
    /\ DB_ENABLED = FALSE
    /\ tasksFile \in AwardTaskLists
    /\ taskRows = <<>>
    /\ userBadges = <<>>
    /\ now = StartClock
    /\ ticks = 0
    /\ reqs = 0
    /\ last = NoRequest
    /\ StoreIdle

\* the same profile request on both stores
CacheProfile ==
    /\ reqs < MaxRequests
    /\ LET a == profile(pin.username, pin.A, load_tasks)
           b == profile(pin.username, pin.B, load_tasks)
       IN  /\ pin' = [pin EXCEPT !.A = a.store, !.B = b.store]
           /\ pout' = [done |-> TRUE, value |-> [op |-> "profile", A |-> a.shown, B |-> b.shown]]
    /\ reqs' = reqs + 1
    /\ UNCHANGED <<DB_ENABLED, tasksFile, taskRows, userBadges, now, ticks, last>>

\* the same award on both stores
CacheAward ==
    /\ reqs < MaxRequests
    /\ LET a == award(pin.username, pin.A, load_tasks)
           b == award(pin.username, pin.B, load_tasks)
       IN  /\ pin' = [pin EXCEPT !.A = a.store, !.B = b.store]
           /\ pout' = [done |-> TRUE, value |-> [op |-> "award", A |-> a.shown, B |-> b.shown]]
    /\ reqs' = reqs + 1
    /\ UNCHANGED <<DB_ENABLED, tasksFile, taskRows, userBadges, now, ticks, last>>

NextCache ==
    \/ CacheProfile /\ UNCHANGED storeVars
    \/ CacheAward /\ UNCHANGED storeVars

SpecCache == InitCache /\ [][NextCache]_vars

\* C37: the cached counters never reach the achievement engine: on two
\* stores that differ only in them the stats, the next-badge progress and
\* the award come out the same and the same links are held afterwards; the
\* profile view leaves the cache at the computed completed_count and
\* current_streak.
C37_CacheNeverRead ==
    pout.done =>
        /\ pout.value.A = pout.value.B
        /\ pin.A.user_badges = pin.B.user_badges
        /\ pout.value.op = "profile" =>
              LET stats == get_user_completion_stats(pin.username, load_tasks)
                  fresh == [total_tasks_completed |-> stats.completed_count,
                            streak_count |-> stats.current_streak]
              IN  pin.A.cache = fresh /\ pin.B.cache = fresh

\* nick's one completion is shown on both profiles although one store had
\* cached 7 completions and the other none; both caches now say 1 and 1
C37_Witness ==
    /\ pout.done /\ pout.value.op = "profile" /\ reqs = 1
    /\ pin.username = "nick"
    /\ tasksFile = <<DoneTask("nick", 30)>>
    /\ pout.value.A.stats.completed_count = 1
    /\ pout.value.A.progress.slug = BADGE_SLUG_FIRST_STEP
    /\ pin.A.cache = [total_tasks_completed |-> 1, streak_count |-> 1]
    /\ pin.B.cache = pin.A.cache

(***************************************************************************)
(* Loads as the collectors issue them (specification SpecStore): a worker  *)
(* that loads is a reader of the topic.                                    *)
(***************************************************************************)
\* the document the topic holds: the one the path names, or the default
\* when the path names nothing
TopicDocument == IF dirent = 0 THEN Placeholder ELSE inodes[dirent][1]

\* worker p, inside load_json, takes a step
LoadStep(p) ==
    /\ procs'[p] # procs[p]
    /\ \/ procs[p].forLoad
       \/ procs[p].pc \in {"query", "l_lock", "l_open", "l_missing", "l_read", "l_rest", "l_return"}

\* C38: a collector pass only reads: no step of a load changes the document
\* a topic holds (a missing file and the default document being the same
\* topic content), nor any row of the table.
C38_LoadsLeaveTopics ==
    [][ \A p \in Procs : LoadStep(p) =>
          /\ SameContent(TopicDocument, TopicDocument')
          /\ rows' = rows ]_vars

\* C38 for a load that finds the file: it changes neither the path nor
\* any inode
C38_ExistingFileUntouched ==
    [][ \A p \in Procs : (LoadStep(p) /\ ~procs[p].forLoad /\ ~procs'[p].forLoad) =>
          UNCHANGED <<inodes, dirent, rows>> ]_vars

(***************************************************************************)
(* The sibling of a completed recurring task (specification Spec).         *)
(***************************************************************************)
\* an authorized toggle completed a recurring task with a parseable due date
SpawnsSibling ==
    /\ Applied("toggle")
    /\ ~load_tasks[last'.task_id + 1].done
    /\ Recurs(load_tasks[last'.task_id + 1])

\* the task before its completion, and the task appended by the step
Completed == load_tasks[last'.task_id + 1]

Sibling == load_tasks'[Len(load_tasks')]

\* C34: the sibling appended when a recurring task is completed equals the
\* completed task on every field other than done, due_date, completed_at and
\* completed_by: text, priority, tags, recurrence, owner, assignee username
\* and label, notes and created_at are the same.
C34_SiblingCopiesTask ==
    [][ SpawnsSibling =>
          Sibling = [Completed EXCEPT !.done = Sibling.done,
                                      !.due_date = Sibling.due_date,
                                      !.completed_at = Sibling.completed_at,
                                      !.completed_by = Sibling.completed_by] ]_vars

\* C34 but for created_at and the overdue flag, which the sibling gets anew
C34_SiblingCopiesRest ==
    [][ SpawnsSibling =>
          /\ Sibling = [Completed EXCEPT !.done = FALSE,
                                         !.due_date = Sibling.due_date,
                                         !.completed_at = <<>>,
                                         !.completed_by = "",
                                         !.created_at = iso_minutes(now),
                                         !.overdue = FALSE] ]_vars

(***************************************************************************)
(* Concurrent toggles of different tasks (specification SpecBadge).        *)
(***************************************************************************)
\* worker p's toggle saves the task list in this step
SavesTasks(p) ==
    /\ procs[p].pc = "save"
    /\ procs'[p].pc = "idle"

\* what a toggle decides about a task
Completion(task) ==
    [done |-> task.done, completed_at |-> task.completed_at, completed_by |-> task.completed_by]

\* C39: no update is lost: when a request saves the list it loaded and
\* modified, every task other than the one it toggled keeps the completion
\* state the store held just before, so the effect of a request that
\* completed in between is still there.
C39_NoLostUpdate ==
    [][ \A p \in Procs : SavesTasks(p) =>
          /\ Len(load_tasks') = Len(load_tasks)
          /\ \A i \in 1..Len(load_tasks) :
                i # procs[p].task_id + 1 =>
                    Completion(load_tasks'[i]) = Completion(load_tasks[i]) ]_vars

\* what does hold: the list a request saves is the one it loaded with its
\* own change, whole
C39_SavesOwnList ==
    [][ \A p \in Procs : SavesTasks(p) =>
          /\ Len(load_tasks') = Len(procs[p].ts)
          /\ \A i \in 1..Len(load_tasks') :
                Completion(load_tasks'[i]) = Completion(procs[p].ts[i]) ]_vars

(***************************************************************************)
(* save_json_atomic with failing steps and crashing workers.  pout is the  *)
(* set of inodes that a .tmp- name of the topic's directory refers to.     *)
(***************************************************************************)
InitAtomic ==
    /\ DB_ENABLED = FALSE
    /\ LOCKING \in BOOLEAN
    /\ \E file \in StoreFiles :
         /\ inodes = IF file = "missing" THEN <<>>
                     ELSE << <<InitialContent(file), InitialContent(file)>> >>
         /\ dirent = IF file = "missing" THEN 0 ELSE 1
         /\ order = IF file = "missing" THEN <<>> ELSE <<InitialContent(file)>>
    /\ lockHolder = 0
    /\ procs = [p \in Procs |-> IdleProc]
    /\ rows = <<>>
    /\ committed = 0
    /\ nextVersion = 1
    /\ LifeIdle
    /\ pin = <<>>
    /\ pout = {}

\* tempfile.mkstemp creates the temporary name
AtomicMkstemp(p) ==
    /\ SaveMkstemp(p)
    /\ pout' = pout \cup {procs'[p].tmp}

\* os.replace(tmp, path) moves the temporary name onto the path
AtomicReplace(p) ==
    /\ SaveReplace(p)
    /\ pout' = pout \ {procs[p].tmp}

\* a step of the with block raises, were the finally not to remove tmp
AtomicFail_leaving_tmp(p) ==
    /\ SaveFail(p)
    /\ UNCHANGED pout

\* a step of the with block raises: finally os.remove(tmp), then the lock's
\* finally, and the exception reaches the caller
AtomicFail(p) ==
    /\ SaveFail(p)
    /\ pout' = pout \ {procs[p].tmp}

\* the worker process dies inside save_json_atomic: nothing of it runs any
\* more, and the kernel drops the lock its lock file held
AtomicCrash(p) ==
    /\ procs[p].pc \in SaveSteps \cup {"s_unlock"}
    /\ Release(p)
    /\ procs' = [procs EXCEPT ![p].pc = "crashed"]
    /\ UNCHANGED <<inodes, dirent, rows, order, committed, nextVersion, LOCKING, pout>>

NextAtomic ==
    \/ \E p \in Procs : SaveBegin(p) /\ UNCHANGED <<lifeVars, pureVars>>
    \/ \E p \in Procs : SaveLock(p) /\ UNCHANGED <<lifeVars, pureVars>>
    \/ \E p \in Procs : AtomicMkstemp(p) /\ UNCHANGED <<lifeVars, pin>>
    \/ \E p \in Procs : SaveDump(p) /\ UNCHANGED <<lifeVars, pureVars>>
    \/ \E p \in Procs : SaveFlush(p) /\ UNCHANGED <<lifeVars, pureVars>>
    \/ \E p \in Procs : SaveFsync(p) /\ UNCHANGED <<lifeVars, pureVars>>
    \/ \E p \in Procs : AtomicReplace(p) /\ UNCHANGED <<lifeVars, pin>>
    \/ \E p \in Procs : SaveUnlock(p) /\ UNCHANGED <<lifeVars, pureVars>>
    \/ \E p \in Procs : AtomicFail(p) /\ UNCHANGED <<lifeVars, pin>>
    \/ \E p \in Procs : AtomicCrash(p) /\ UNCHANGED <<lifeVars, pin>>

SpecAtomic == InitAtomic /\ [][NextAtomic]_vars

\* the bytes of the target file, <<>> when the path names nothing
TargetFile == IF dirent = 0 THEN <<>> ELSE inodes[dirent]

\* the complete document of a content
Document(content) == <<content, content>>

\* C40: a save completes or fails as a whole.  The target changes only in
\* the rename of a save, and then to exactly that save's document; so when a
\* step before the rename fails, or the worker crashes, the target holds the
\* complete content it held.  A failure that returns control leaves no
\* temporary name of that save, neither does a save that returns, and under
\* the lock the target then holds the saved document.
C40_SaveIsWhole ==
    [][ /\ TargetFile' # TargetFile =>
              \E p \in Procs : /\ At(p, "s_replace")
                               /\ procs'[p].pc = "s_unlock"
                               /\ TargetFile' = Document(procs[p].content)
        /\ \A p \in Procs :
              /\ (procs[p].pc \in SaveSteps /\ procs'[p].pc \in {"idle", "crashed"}) =>
                    TargetFile' = TargetFile
              /\ (procs[p].pc \in SaveSteps \cup {"s_unlock"} /\ procs'[p].pc = "idle") =>
                    procs[p].tmp \notin pout'
              /\ (At(p, "s_unlock") /\ procs'[p].pc = "idle" /\ LOCKING) =>
                    TargetFile' = Document(procs[p].content)
      ]_vars

\* a save failed after json.dump had written the first part of its document:
\* control is back, the partial temporary file has no name any more and the
\* target still holds the complete initial document
C40_Witness ==
    \E p \in Procs :
        /\ procs[p].result.kind = "raised"
        /\ At(p, "idle")
        /\ dirent = 1
        /\ inodes[1] = Document(InitialContent("full"))
        /\ \E t \in 2..Len(inodes) : Len(inodes[t]) = 1
        /\ pout = {}

\* a worker crashed between flush and rename while the other completed its
\* save: the target is the other's document, the crashed one's temporary
\* file is still there
C40_WitnessCrash ==
    \E p, q \in Procs :
        /\ At(p, "crashed")
        /\ procs[p].tmp \in pout
        /\ At(q, "idle")
        /\ procs[q].pos # 0
        /\ TargetFile = Document(procs[q].content)

====
